---- MODULE Spec2Model ----
(***************************************************************************)
(* Pinniped Supervisor: the FederationDomain watcher controller            *)
(* (federationDomainWatcherController.Sync and its helpers) and the        *)
(* federation domain set it publishes to the request path.                 *)
(***************************************************************************)
EXTENDS Integers, Sequences, FiniteSets, TLC

VARIABLES
    fdSpecs,      \* the FederationDomain resources: <<[name, generation, spec]>>
    stored,       \* name -> status held by the API server
    cached,       \* name -> status held by the informer cache (may lag behind stored)
    idpStore,     \* the IdP resources held by the three IdP informers
    now,          \* the controller's clock
    faults,       \* UpdateStatus calls the API server may still fail
    pc,           \* position of the single syncer: "idle", "loop", "done"
    snapshot,     \* Sync: the list returned by the FederationDomain lister
    validator,    \* Sync: crossDomainConfigValidator
    idx,          \* Sync: position of the range loop in snapshot (1-based)
    issuers,      \* Sync: federationDomainIssuers
    errs,         \* Sync: errs
    returned,     \* the error list wrapped by the aggregate the last Sync returned
    published,    \* the set held by the FederationDomainsSetter
    setCalls,     \* SetFederationDomains calls made by the current/last Sync
    updateCalls,  \* UpdateStatus calls made by the current/last Sync
    computed,     \* name -> conditions computed by the current/last Sync
    seen,         \* the set an in-flight authorize request has read
    idpFinder,    \* authorize handler: the providers of its FederationDomain
    cookieJar,    \* user agent: the CSRF cookie it holds (none or one)
    served,       \* requests the handler has answered
    request,      \* the request being answered
    faulty,       \* the collaborators that fail for this request
    response,     \* the response writer of this request
    queue,        \* controller: the keys waiting in its work queue
    lastEvent,    \* controller: the informer event delivered last
    events,       \* changes operators have made to the cluster so far
    candidate,    \* API server: the resource submitted with kubectl apply
    outcome,      \* API server: its answer to the submission
    ctx,          \* webhook.start: the context, "live" or "cancelled"
    server,       \* webhook.start: the http.Server
    errCh,        \* webhook.start: the value a blocked sender offers on errCh
    serveGoroutine,  \* webhook.start: position of the goroutine calling ServeTLS
    watchGoroutine,  \* webhook.start: position of the goroutine in the select
    conns,        \* webhook.start: the active and the idle connections of the server
    klog,         \* webhook.start and run: the lines logged
    listener,     \* run: the listener l, "open" or "closed"
    runPc         \* run: its position

vars == <<fdSpecs, stored, cached, idpStore, now, faults, pc, snapshot, validator, idx,
          issuers, errs, returned, published, setCalls, updateCalls, computed,
          seen, idpFinder, cookieJar, served, request, faulty, response,
          queue, lastEvent, events, candidate, outcome,
          ctx, server, errCh, serveGoroutine, watchGoroutine, conns, klog,
          listener, runPc>>

controllerVars ==
    <<fdSpecs, stored, cached, idpStore, now, faults, pc, snapshot, validator, idx,
      issuers, errs, returned, published, setCalls, updateCalls, computed, seen,
      queue, lastEvent, events>>

triggerVars == <<queue, lastEvent, events>>

admissionVars == <<candidate, outcome>>

webhookVars ==
    <<ctx, server, errCh, serveGoroutine, watchGoroutine, conns, klog,
      listener, runPc>>

handlerVars == <<idpFinder, cookieJar, served, request, faulty, response>>

syncLocals == <<snapshot, validator, idx, issuers, errs>>

----------------------------------------------------------------------------
(* Bounds *)

NumDomains == 2     \* FederationDomains in the cluster (general specification)
MaxIdps == 2        \* entries of spec.identityProviders
MaxTime == 1        \* clock ticks
MaxFaults == 2      \* failing UpdateStatus calls
MaxRequests == 2    \* requests one user agent sends
MaxExamples == 2    \* entries of transforms.examples
MaxEvents == 2      \* changes operators make to the cluster
MaxConns == 3       \* connections the webhook server accepts

----------------------------------------------------------------------------
(* Constants of the controller *)

typeReady == "Ready"
typeIssuerURLValid == "IssuerURLValid"
typeOneTLSSecretPerIssuerHostname == "OneTLSSecretPerIssuerHostname"
typeIssuerIsUnique == "IssuerIsUnique"
typeIdentityProvidersFound == "IdentityProvidersFound"

reasonSuccess == "Success"
reasonNotReady == "NotReady"
reasonUnableToValidate == "UnableToValidate"
reasonInvalidIssuerURL == "InvalidIssuerURL"
reasonDuplicateIssuer == "DuplicateIssuer"
reasonDifferentSecretRefsFound == "DifferentSecretRefsFound"
reasonLegacyConfigurationSuccess == "LegacyConfigurationSuccess"
reasonLegacyConfigurationIdentityProviderNotFound == "LegacyConfigurationIdentityProviderNotFound"
reasonIdentityProvidersObjectRefsNotFound == "IdentityProvidersObjectRefsNotFound"
reasonIdentityProviderNotSpecified == "IdentityProviderNotSpecified"

ConditionTrue == "True"
ConditionFalse == "False"
ConditionUnknown == "Unknown"

FederationDomainPhasePending == "Pending"
FederationDomainPhaseReady == "Ready"
FederationDomainPhaseError == "Error"

KindOIDC == "OIDCIdentityProvider"
KindLDAP == "LDAPIdentityProvider"
KindAD == "ActiveDirectoryIdentityProvider"
KindGitHub == "GitHubIdentityProvider"   \* a kind this controller has no lister for

----------------------------------------------------------------------------
(* Issuer strings and net/url.Parse.  A string is kept as the pieces the   *)
(* parser would cut it into, plus a flag for a string the parser rejects.  *)

IssuerString(scheme, host, port, path, malformed) ==
    [scheme |-> scheme, host |-> host, port |-> port, path |-> path,
     malformed |-> malformed]

\* strings.ToLower on the host names of the model
ToLowerHost(h) == IF h = "A" THEN "a" ELSE IF h = "B" THEN "b" ELSE h

\* url.Parse: Host keeps the port; a malformed string gives an error
urlParse(s) ==
    [err |-> s.malformed,
     Scheme |-> s.scheme,
     Host |-> [name |-> s.host, port |-> s.port],
     Path |-> s.path]

\* strings.ToLower(issuerURL.Host): the port is digits and stays as it is
ToLowerHostPort(hp) == [name |-> ToLowerHost(hp.name), port |-> hp.port]

lowercaseHostWithoutPort(u) == ToLowerHost(u.Host.name)

issuerURLToHostnameKey(u) == lowercaseHostWithoutPort(u)

\* a slip: the host taken as written
issuerURLToIssuerKeyCaseSensitive(u) == <<u.Scheme, "://", u.Host, u.Path>>

\* fmt.Sprintf("%s://%s%s", Scheme, ToLower(Host), Path)
issuerURLToIssuerKey(u) == <<u.Scheme, "://", ToLowerHostPort(u.Host), u.Path>>

----------------------------------------------------------------------------
(* Conditions *)

\* a message: its fixed text and the values formatted into it
Message(text, name, count, refs, issuer) ==
    [text |-> text, name |-> name, count |-> count, refs |-> refs, issuer |-> issuer]

PlainMessage(text) == Message(text, "", 0, <<>>, <<>>)

Condition(type, status, reason, message) ==
    [type |-> type, status |-> status, reason |-> reason, message |-> message]

\* a slip: an error only when no condition is True
hadErrorConditionAll(conditions) ==
    \A i \in 1..Len(conditions) : conditions[i].status # ConditionTrue

hadErrorCondition(conditions) ==
    \E i \in 1..Len(conditions) : conditions[i].status # ConditionTrue

----------------------------------------------------------------------------
(* The cross-FederationDomain validator *)

\* a slip: the nil check on Spec.TLS left out
tlsSecretNamesNoNilCheck(federationDomain) == {federationDomain.spec.tls.secretName}

\* the names one FederationDomain adds to the set of its hostname
tlsSecretNames(federationDomain) ==
    IF federationDomain.spec.tls.set THEN {federationDomain.spec.tls.secretName} ELSE {}

ParsedIndices(federationDomains) ==
    {i \in 1..Len(federationDomains) : ~urlParse(federationDomains[i].spec.issuer).err}

newCrossFederationDomainConfigValidator(federationDomains) ==
    LET ok == ParsedIndices(federationDomains)
        url(i) == urlParse(federationDomains[i].spec.issuer)
        keys == {issuerURLToIssuerKey(url(i)) : i \in ok}
        hosts == {issuerURLToHostnameKey(url(i)) : i \in ok}
    IN [issuerCounts |->
            [k \in keys |-> Cardinality({i \in ok : issuerURLToIssuerKey(url(i)) = k})],
        uniqueSecretNamesPerIssuerAddress |->
            [h \in hosts |->
                UNION {tlsSecretNames(federationDomains[i]) :
                          i \in {j \in ok : issuerURLToHostnameKey(url(j)) = h}}]]

\* a Go map read: the zero value for a key that is not there
issuerCount(v, k) ==
    IF k \in DOMAIN v.issuerCounts THEN v.issuerCounts[k] ELSE 0

secretNames(v, h) ==
    IF h \in DOMAIN v.uniqueSecretNamesPerIssuerAddress
    THEN v.uniqueSecretNamesPerIssuerAddress[h] ELSE {}

IssuerIsUniqueCondition(v, issuerURL) ==
    IF issuerCount(v, issuerURLToIssuerKey(issuerURL)) > 1
    THEN Condition(typeIssuerIsUnique, ConditionFalse, reasonDuplicateIssuer,
                   PlainMessage("multiple FederationDomains have the same spec.issuer URL"))
    ELSE Condition(typeIssuerIsUnique, ConditionTrue, reasonSuccess,
                   PlainMessage("spec.issuer is unique among all FederationDomains"))

OneTLSSecretCondition(v, issuerURL) ==
    IF Cardinality(secretNames(v, issuerURLToHostnameKey(issuerURL))) > 1
    THEN Condition(typeOneTLSSecretPerIssuerHostname, ConditionFalse,
                   reasonDifferentSecretRefsFound,
                   PlainMessage("different secretRefs found"))
    ELSE Condition(typeOneTLSSecretPerIssuerHostname, ConditionTrue, reasonSuccess,
                   PlainMessage("all FederationDomains are using the same TLS secret"))

Validate(v, federationDomain, conditions) ==
    LET issuerURL == urlParse(federationDomain.spec.issuer)
    IN IF issuerURL.err
       THEN conditions \o
            <<Condition(typeIssuerIsUnique, ConditionUnknown, reasonUnableToValidate,
                        PlainMessage("unable to check if spec.issuer is unique")),
              Condition(typeOneTLSSecretPerIssuerHostname, ConditionUnknown,
                        reasonUnableToValidate,
                        PlainMessage("unable to check the TLS secrets"))>>
       ELSE conditions \o
            <<IssuerIsUniqueCondition(v, issuerURL), OneTLSSecretCondition(v, issuerURL)>>

----------------------------------------------------------------------------
(* Identity providers of one FederationDomain *)

IdPResource(kind, name, uid) == [kind |-> kind, name |-> name, uid |-> uid]

\* Lister().List(labels.Everything()) of one informer
ListKind(store, kind) == {r \in store : r.kind = kind}

\* idtransform.NewTransformationPipeline()
NewTransformationPipeline == <<>>

NilTransform == [type |-> "nil", expression |-> "", message |-> ""]

\* the text of a CEL expression of the model that the compiler rejects
BadExpression == "syntax error"

\* the switch on e.Type: nil for a type that is none of the three
rawTransformOf(e) ==
    IF e.type \in {"username/v1", "groups/v1"}
    THEN [type |-> e.type, expression |-> e.expression, message |-> ""]
    ELSE IF e.type = "policy/v1"
    THEN [type |-> e.type, expression |-> e.expression, message |-> e.message]
    ELSE NilTransform

\* celtransformer.CompileTransformation: an error for an expression that does
\* not compile and for a transformation of no known type
CompileTransformation(rawTransform) ==
    IF rawTransform = NilTransform \/ rawTransform.expression = BadExpression
    THEN [err |-> TRUE, transform |-> NilTransform]
    ELSE [err |-> FALSE, transform |-> rawTransform]

\* the loop over idp.Transforms.Expressions: the compile error is logged and
\* whatever CompileTransformation returned is appended to the pipeline
RECURSIVE compileExpressions(_, _)
compileExpressions(expressions, pipeline) ==
    IF expressions = <<>> THEN pipeline
    ELSE compileExpressions(Tail(expressions),
            Append(pipeline, CompileTransformation(rawTransformOf(Head(expressions))).transform))

\* expressions of the model: a policy that lets everyone in but the user
\* "contractor", a username that is always "admin", an empty list of groups
PolicyNotContractor == "username != \"contractor\""
UsernameAdmin == "\"admin\""
GroupsNone == "[]"

\* pipeline.Evaluate over transformations that compiled: username/v1 replaces
\* the username, groups/v1 the groups, and the first policy/v1 that is false
\* ends the evaluation with its message
RECURSIVE Evaluate(_, _, _)
Evaluate(pipeline, username, groups) ==
    IF pipeline = <<>>
    THEN [Username |-> username, Groups |-> groups, AuthenticationAllowed |-> TRUE,
          RejectedAuthenticationMessage |-> ""]
    ELSE LET t == Head(pipeline)
         IN IF t.type = "policy/v1"
            THEN IF t.expression = PolicyNotContractor /\ username = "contractor"
                 THEN [Username |-> username, Groups |-> groups,
                       AuthenticationAllowed |-> FALSE,
                       RejectedAuthenticationMessage |-> t.message]
                 ELSE Evaluate(Tail(pipeline), username, groups)
            ELSE IF t.type = "username/v1"
            THEN Evaluate(Tail(pipeline),
                          IF t.expression = UsernameAdmin THEN "admin" ELSE username, groups)
            ELSE IF t.type = "groups/v1"
            THEN Evaluate(Tail(pipeline), username,
                          IF t.expression = GroupsNone THEN <<>> ELSE groups)
            ELSE Evaluate(Tail(pipeline), username, groups)

stringSlicesEqual(a, b) ==
    /\ Len(a) = Len(b)
    /\ \A i \in 1..Len(a) : b[i] = a[i]

\* the plog.Warning calls one example makes: the branches of the if chain
exampleWarnings(e, result) ==
    LET resultWasAuthRejected == ~result.AuthenticationAllowed
    IN IF e.expects.rejected /\ ~resultWasAuthRejected
       THEN <<"expected authentication to be rejected but it was not">>
       ELSE IF ~e.expects.rejected /\ resultWasAuthRejected
       THEN <<"expected authentication not to be rejected but it was rejected">>
       ELSE IF /\ e.expects.rejected /\ resultWasAuthRejected
               /\ e.expects.message # result.RejectedAuthenticationMessage
       THEN <<"expected a different authentication rejection message">>
       ELSE IF result.AuthenticationAllowed
       THEN (IF e.expects.username # result.Username
             THEN <<"expected a different transformed username">> ELSE <<>>)
            \o (IF ~stringSlicesEqual(e.expects.groups, result.Groups)
                THEN <<"expected a different transformed groups list">> ELSE <<>>)
       ELSE <<>>

\* the loop over idp.Transforms.Examples: what it writes to the log, each
\* warning with the 0-based index of its example
RECURSIVE runExamples(_, _, _)
runExamples(examples, idx0, pipeline) ==
    IF idx0 >= Len(examples) THEN <<>>
    ELSE LET e == examples[idx0 + 1]
             result == Evaluate(pipeline, e.username, e.groups)
             logged == exampleWarnings(e, result)
         IN [k \in 1..Len(logged) |-> <<idx0, logged[k]>>]
            \o runExamples(examples, idx0 + 1, pipeline)

\* a slip: a failed example turned into a condition of the FederationDomain
exampleConditionsRecorded(warnings) ==
    IF warnings # <<>>
    THEN <<Condition("TransformsExamplesPassed", ConditionFalse, "TransformExamplesFailed",
                     PlainMessage("the transform examples failed"))>>
    ELSE <<>>

\* the conditions the examples loop appends for its failed examples: every
\* branch logs and goes on
exampleConditions(warnings) == <<>>

\* a slip: the NotFound answer of the ActiveDirectory lister not recorded
lookupObjectRefDroppingAD(objectRef, store) ==
    LET hit == {r \in ListKind(store, objectRef.kind) : r.name = objectRef.name}
    IN IF objectRef.kind \in {KindLDAP, KindAD, KindOIDC}
       THEN IF hit # {}
            THEN [uid |-> (CHOOSE r \in hit : TRUE).uid, notFound |-> FALSE]
            ELSE [uid |-> "", notFound |-> objectRef.kind # KindAD]
       ELSE [uid |-> "", notFound |-> FALSE]

\* the switch on idp.ObjectRef.Kind: the UID when the lister has the resource,
\* the index recorded when it answers NotFound, nothing for any other kind
lookupObjectRef(objectRef, store) ==
    LET hit == {r \in ListKind(store, objectRef.kind) : r.name = objectRef.name}
    IN IF objectRef.kind \in {KindLDAP, KindAD, KindOIDC}
       THEN IF hit # {}
            THEN [uid |-> (CHOOSE r \in hit : TRUE).uid, notFound |-> FALSE]
            ELSE [uid |-> "", notFound |-> TRUE]
       ELSE [uid |-> "", notFound |-> FALSE]

FederationDomainIdentityProvider(displayName, uid, transforms) ==
    [DisplayName |-> displayName, UID |-> uid, Transforms |-> transforms]

\* the loop over federationDomain.Spec.IdentityProviders; index is 0-based as in Go
RECURSIVE resolveExplicit(_, _, _, _)
resolveExplicit(idps, index, store, acc) ==
    IF index >= Len(idps) THEN acc
    ELSE LET idp == idps[index + 1]
             got == lookupObjectRef(idp.objectRef, store)
             pipeline == compileExpressions(idp.transforms.expressions,
                                            NewTransformationPipeline)
         IN resolveExplicit(idps, index + 1, store,
              [idpNotFoundIndices |->
                   IF got.notFound THEN Append(acc.idpNotFoundIndices, index)
                   ELSE acc.idpNotFoundIndices,
               warnings |->
                   acc.warnings \o runExamples(idp.transforms.examples, 0, pipeline),
               federationDomainIdentityProviders |->
                   Append(acc.federationDomainIdentityProviders,
                          FederationDomainIdentityProvider(idp.displayName, got.uid, pipeline))])

\* a slip: the ActiveDirectory list left out of the sum
idpCRsCountWithoutAD(store) ==
    Cardinality(ListKind(store, KindOIDC)) + Cardinality(ListKind(store, KindLDAP))

\* idpCRsCount: the three lists together
idpCRsCountOf(store) ==
    Cardinality(ListKind(store, KindOIDC)) + Cardinality(ListKind(store, KindLDAP))
        + Cardinality(ListKind(store, KindAD))

\* the block for an empty spec.identityProviders: the sole IdP as default
\* provider (a sequence of none or one), and the condition
resolveLegacy(store) ==
    LET oidc == ListKind(store, KindOIDC)
        ldap == ListKind(store, KindLDAP)
        ad == ListKind(store, KindAD)
        idpCRsCount == idpCRsCountOf(store)
        sole == IF Cardinality(oidc) = 1 THEN CHOOSE r \in oidc : TRUE
                ELSE IF Cardinality(ldap) = 1 THEN CHOOSE r \in ldap : TRUE
                ELSE CHOOSE r \in ad : TRUE
    IN IF idpCRsCount = 1
       THEN [default |-> <<FederationDomainIdentityProvider(sole.name, sole.uid,
                                                            NewTransformationPipeline)>>,
             conditions |->
                <<Condition(typeIdentityProvidersFound, ConditionTrue,
                            reasonLegacyConfigurationSuccess,
                            Message("exactly one identity provider resource has been found",
                                    sole.name, 0, <<>>, <<>>))>>]
       ELSE IF idpCRsCount > 1
       THEN [default |-> <<>>,
             conditions |->
                <<Condition(typeIdentityProvidersFound, ConditionFalse,
                            reasonIdentityProviderNotSpecified,
                            Message("identity provider resources have been found",
                                    "", idpCRsCount, <<>>, <<>>))>>]
       ELSE [default |-> <<>>,
             conditions |->
                <<Condition(typeIdentityProvidersFound, ConditionFalse,
                            reasonLegacyConfigurationIdentityProviderNotFound,
                            PlainMessage("no identity provider resources have been found"))>>]

\* msgs: "IDP with displayName %q at index %d" for each recorded index
RECURSIVE notFoundMsgs(_, _)
notFoundMsgs(idps, indices) ==
    IF indices = <<>> THEN <<>>
    ELSE <<<<idps[Head(indices) + 1].displayName, Head(indices)>>>>
         \o notFoundMsgs(idps, Tail(indices))

\* the condition appended after the loop: none for an empty list
explicitCondition(idps, idpNotFoundIndices) ==
    IF Len(idpNotFoundIndices) # 0
    THEN <<Condition(typeIdentityProvidersFound, ConditionFalse,
                     reasonIdentityProvidersObjectRefsNotFound,
                     Message("objectRef identifies resource(s) that cannot be found",
                             "", 0, notFoundMsgs(idps, idpNotFoundIndices), <<>>))>>
    ELSE IF Len(idps) # 0
    THEN <<Condition(typeIdentityProvidersFound, ConditionTrue, reasonSuccess,
                     PlainMessage("the resources specified by objectRef were found"))>>
    ELSE <<>>

\* everything Sync does for the identity providers of one FederationDomain
resolveIdentityProviders(federationDomain, store) ==
    LET idps == federationDomain.spec.identityProviders
        legacy == IF Len(idps) = 0 THEN resolveLegacy(store)
                  ELSE [default |-> <<>>, conditions |-> <<>>]
        explicit == resolveExplicit(idps, 0, store,
                        [idpNotFoundIndices |-> <<>>,
                         warnings |-> <<>>,
                         federationDomainIdentityProviders |-> <<>>])
    IN [default |-> legacy.default,
        providers |-> explicit.federationDomainIdentityProviders,
        idpNotFoundIndices |-> explicit.idpNotFoundIndices,
        warnings |-> explicit.warnings,
        conditions |-> legacy.conditions
                       \o exampleConditions(explicit.warnings)
                       \o explicitCondition(idps, explicit.idpNotFoundIndices)]

----------------------------------------------------------------------------
(* federationdomainproviders: the issuer constructors *)

\* the validation both constructors make: the URL parses, its scheme is https
\* and its host is not empty
issuerURLInvalid(issuer) ==
    LET u == urlParse(issuer)
    IN u.err \/ u.Scheme # "https" \/ u.Host.name = ""

\* a constructor returns the issuer (a sequence of none or one) or an error
NewFederationDomainIssuer(issuer, identityProviders) ==
    IF issuerURLInvalid(issuer) THEN [err |-> TRUE, issuer |-> <<>>]
    ELSE [err |-> FALSE,
          issuer |-> <<[issuer |-> issuer,
                        identityProviders |-> identityProviders,
                        defaultIdentityProvider |-> <<>>]>>]

NewFederationDomainIssuerWithDefaultIDP(issuer, defaultIdentityProvider) ==
    IF issuerURLInvalid(issuer) THEN [err |-> TRUE, issuer |-> <<>>]
    ELSE [err |-> FALSE,
          issuer |-> <<[issuer |-> issuer,
                        identityProviders |-> <<>>,
                        defaultIdentityProvider |-> <<defaultIdentityProvider>>]>>]

\* a slip: the constructor for a list of providers used in every case
createIssuerAlwaysListed(federationDomain, resolved) ==
    LET made == NewFederationDomainIssuer(federationDomain.spec.issuer, resolved.providers)
    IN [issuer |-> made.issuer,
        condition |->
            IF made.err
            THEN Condition(typeIssuerURLValid, ConditionFalse, reasonInvalidIssuerURL,
                           PlainMessage("issuer URL validation error"))
            ELSE Condition(typeIssuerURLValid, ConditionTrue, reasonSuccess,
                           PlainMessage("spec.issuer is a valid URL"))]

\* the choice of the constructor and the IssuerURLValid condition
createIssuer(federationDomain, resolved) ==
    LET made == IF resolved.default # <<>>
                THEN NewFederationDomainIssuerWithDefaultIDP(
                         federationDomain.spec.issuer, resolved.default[1])
                ELSE NewFederationDomainIssuer(
                         federationDomain.spec.issuer, resolved.providers)
    IN [issuer |-> made.issuer,
        condition |->
            IF made.err
            THEN Condition(typeIssuerURLValid, ConditionFalse, reasonInvalidIssuerURL,
                           PlainMessage("issuer URL validation error"))
            ELSE Condition(typeIssuerURLValid, ConditionTrue, reasonSuccess,
                           PlainMessage("spec.issuer is a valid URL"))]

\* the conditions Sync has collected for one FederationDomain before updateStatus
domainConditions(v, federationDomain, store) ==
    LET resolved == resolveIdentityProviders(federationDomain, store)
    IN Validate(v, federationDomain, <<>>)
       \o resolved.conditions
       \o <<createIssuer(federationDomain, resolved).condition>>

----------------------------------------------------------------------------
(* updateStatus *)

\* the order sort.SliceStable gives the condition types
TypeOrder ==
    <<typeIdentityProvidersFound, typeIssuerIsUnique, typeIssuerURLValid,
      typeOneTLSSecretPerIssuerHostname, typeReady>>

StoredCondition(c, observedGeneration, lastTransitionTime) ==
    [type |-> c.type, status |-> c.status, reason |-> c.reason, message |-> c.message,
     observedGeneration |-> observedGeneration,
     lastTransitionTime |-> lastTransitionTime]

\* one condition merged into the existing ones: an existing condition of the
\* type is replaced, keeping its lastTransitionTime when status, reason and
\* message are the same; a condition of a new type is appended
mergeConfigCondition(existing, new, observedGeneration, time) ==
    LET at == {i \in 1..Len(existing) : existing[i].type = new.type}
    IN IF at = {}
       THEN Append(existing, StoredCondition(new, observedGeneration, time))
       ELSE [i \in 1..Len(existing) |->
                IF i \in at
                THEN StoredCondition(new, observedGeneration,
                        IF /\ existing[i].status = new.status
                           /\ existing[i].reason = new.reason
                           /\ existing[i].message = new.message
                        THEN existing[i].lastTransitionTime ELSE time)
                ELSE existing[i]]

RECURSIVE mergeAll(_, _, _, _)
mergeAll(conditions, observedGeneration, existing, time) ==
    IF conditions = <<>> THEN existing
    ELSE mergeAll(Tail(conditions), observedGeneration,
                  mergeConfigCondition(existing, Head(conditions), observedGeneration, time),
                  time)

RECURSIVE sortByType(_, _)
sortByType(conditions, order) ==
    IF order = <<>> THEN <<>>
    ELSE SelectSeq(conditions, LAMBDA c : c.type = Head(order))
         \o sortByType(conditions, Tail(order))

\* conditionsutil.MergeConfigConditions
MergeConfigConditions(conditions, observedGeneration, conditionsToUpdate, time) ==
    sortByType(mergeAll(conditions, observedGeneration, conditionsToUpdate, time),
               TypeOrder)

\* the Ready condition and the phase updateStatus derives from the others
readyCondition(federationDomain, conditions) ==
    IF hadErrorCondition(conditions)
    THEN Condition(typeReady, ConditionFalse, reasonNotReady,
                   PlainMessage("the FederationDomain is not ready"))
    ELSE Condition(typeReady, ConditionTrue, reasonSuccess,
                   Message("the FederationDomain is ready", "", 0, <<>>,
                           <<federationDomain.spec.issuer>>))

\* a slip: the phase set to Ready on both branches
phaseOfAlwaysReady(conditions) == FederationDomainPhaseReady

phaseOf(conditions) ==
    IF hadErrorCondition(conditions) THEN FederationDomainPhaseError
    ELSE FederationDomainPhaseReady

\* a slip: the generation written along with the status
updatedObjectWithGeneration(federationDomain, conditions, time) ==
    [federationDomain EXCEPT
        !.generation = @ + 1,
        !.status = [phase |-> phaseOf(conditions),
                    conditions |->
                        MergeConfigConditions(
                            Append(conditions, readyCondition(federationDomain, conditions)),
                            federationDomain.generation,
                            federationDomain.status.conditions, time)]]

\* updated: the DeepCopy with the new phase and the merged conditions
updatedObject(federationDomain, conditions, time) ==
    [federationDomain EXCEPT
        !.status = [phase |-> phaseOf(conditions),
                    conditions |->
                        MergeConfigConditions(
                            Append(conditions, readyCondition(federationDomain, conditions)),
                            federationDomain.generation,
                            federationDomain.status.conditions, time)]]

\* a slip: the comparison left out, every Sync writes
needsUpdateStatusAlways(federationDomain, updated) == TRUE

\* equality.Semantic.DeepEqual(federationDomain, updated) decides the call
needsUpdateStatus(federationDomain, updated) == federationDomain # updated

----------------------------------------------------------------------------
(* The set published to the request path *)

\* an entry of federationDomainIssuers, with the FederationDomain it was built from
IssuerEntry(federationDomain, issuer) == [fd |-> federationDomain.name, issuer |-> issuer]

NoStatus == [phase |-> FederationDomainPhasePending, conditions |-> <<>>]

Names(specs) == {specs[i].name : i \in 1..Len(specs)}

\* the object the lister returns: the resource with the status the cache holds
Observed(i) ==
    [name |-> fdSpecs[i].name, generation |-> fdSpecs[i].generation,
     spec |-> fdSpecs[i].spec, status |-> cached[fdSpecs[i].name]]

----------------------------------------------------------------------------
(* The informers of the controller and its work queue *)

KindFederationDomain == "FederationDomain"

\* pinnipedcontroller.SingletonQueue: the one key every event is filed under
SingletonQueue == [namespace |-> "", name |-> "singleton"]

\* pinnipedcontroller.MatchAnythingFilter
MatchAnythingFilter(parentFunc) ==
    [add |-> TRUE, update |-> TRUE, delete |-> TRUE, parent |-> parentFunc]

\* pinnipedcontroller.MatchAnythingIgnoringUpdatesFilter
MatchAnythingIgnoringUpdatesFilter(parentFunc) ==
    [add |-> TRUE, update |-> FALSE, delete |-> TRUE, parent |-> parentFunc]

\* a slip: the IdP informers given the filter of the FederationDomain informer
idpInformerFilterMatchingUpdates == MatchAnythingFilter(SingletonQueue)

\* the filter of the three IdP informers
idpInformerFilter == MatchAnythingIgnoringUpdatesFilter(SingletonQueue)

\* the withInformer calls of NewFederationDomainWatcherController
informerFilter(informer) ==
    IF informer = KindFederationDomain THEN MatchAnythingFilter(SingletonQueue)
    ELSE idpInformerFilter

\* the informer hands an event to its filter, and the key of a matching event
\* is added to the queue, which holds a key once
Enqueue(informer, op, q) ==
    IF informerFilter(informer)[op] THEN q \cup {informerFilter(informer).parent} ELSE q

Deliver(informer, op) ==
    /\ lastEvent' = [informer |-> informer, op |-> op]
    /\ queue' = Enqueue(informer, op, queue)

----------------------------------------------------------------------------
(* Sync, one action per step of the syncer *)

\* the start of Sync: the list, the empty errs and issuers, the validator
SyncStart ==
    /\ pc \in {"idle", "done"}
    /\ pc' = "loop"
    /\ snapshot' = [i \in 1..Len(fdSpecs) |-> Observed(i)]
    /\ validator' = newCrossFederationDomainConfigValidator(snapshot')
    /\ idx' = 1
    /\ issuers' = <<>>
    /\ errs' = <<>>
    /\ setCalls' = 0
    /\ updateCalls' = <<>>
    /\ computed' = [n \in Names(fdSpecs) |-> <<>>]
    /\ queue' = queue \ {SingletonQueue}
    /\ UNCHANGED <<lastEvent, events>>
    /\ UNCHANGED <<handlerVars, admissionVars, webhookVars>>
    /\ UNCHANGED <<fdSpecs, stored, cached, idpStore, now, faults, returned,
                   published, seen>>

\* a slip: only the latest error kept
appendErrKeepLast(list, name) == <<name>>

\* errs = append(errs, ...)
appendErr(list, name) == Append(list, name)

\* a slip: no continue after the error of updateStatus
loadsIssuerDespiteError(failed, conditions) == ~hadErrorCondition(conditions)

\* the continue after an error of updateStatus and the check before the append
loadsIssuer(failed, conditions) == ~failed /\ ~hadErrorCondition(conditions)

\* one iteration of the range loop: the conditions, the issuer, updateStatus,
\* and the append to federationDomainIssuers
SyncDomain ==
    /\ pc = "loop"
    /\ idx <= Len(snapshot)
    /\ LET federationDomain == snapshot[idx]
           resolved == resolveIdentityProviders(federationDomain, idpStore)
           made == createIssuer(federationDomain, resolved)
           conditions == domainConditions(validator, federationDomain, idpStore)
           updated == updatedObject(federationDomain, conditions, now)
           call == needsUpdateStatus(federationDomain, updated)
           gone == federationDomain.name \notin Names(fdSpecs)
       IN \E failed \in (IF call /\ gone THEN {TRUE}
                         ELSE IF call /\ faults > 0 THEN BOOLEAN ELSE {FALSE}) :
            /\ faults' = IF failed /\ ~gone THEN faults - 1 ELSE faults
            /\ computed' = [computed EXCEPT ![federationDomain.name] =
                              Append(conditions, readyCondition(federationDomain, conditions))]
            /\ updateCalls' = IF call
                              THEN Append(updateCalls, [object |-> updated, failed |-> failed])
                              ELSE updateCalls
            /\ stored' = IF call /\ ~failed
                         THEN [stored EXCEPT ![federationDomain.name] = updated.status]
                         ELSE stored
            /\ errs' = IF failed THEN appendErr(errs, federationDomain.name) ELSE errs
            /\ issuers' = IF loadsIssuer(failed, conditions)
                          THEN Append(issuers, IssuerEntry(federationDomain, made.issuer[1]))
                          ELSE issuers
    /\ idx' = idx + 1
    /\ UNCHANGED triggerVars
    /\ UNCHANGED <<handlerVars, admissionVars, webhookVars>>
    /\ UNCHANGED <<fdSpecs, cached, idpStore, now, pc, snapshot, validator, returned,
                   published, setCalls, seen>>

\* the FederationDomainsSetter: the whole set replaced in one step
SetFederationDomains(federationDomains) == published' = federationDomains

\* a slip: SetFederationDomains called inside the loop, with the list so far
SyncPublishInsideLoop ==
    /\ pc = "loop"
    /\ SetFederationDomains(issuers)
    /\ setCalls' = setCalls + 1
    /\ IF idx > Len(snapshot)
       THEN pc' = "done" /\ returned' = errs
       ELSE setCalls = 0 /\ UNCHANGED <<pc, returned>>
    /\ UNCHANGED triggerVars
    /\ UNCHANGED <<handlerVars, admissionVars, webhookVars>>
    /\ UNCHANGED <<fdSpecs, stored, cached, idpStore, now, faults, snapshot, validator, idx,
                   issuers, errs, updateCalls, computed, seen>>

\* the one SetFederationDomains call after the loop, and the return
SyncPublish ==
    /\ pc = "loop"
    /\ idx > Len(snapshot)
    /\ SetFederationDomains(issuers)
    /\ setCalls' = setCalls + 1
    /\ returned' = errs
    /\ pc' = "done"
    /\ UNCHANGED triggerVars
    /\ UNCHANGED <<handlerVars, admissionVars, webhookVars>>
    /\ UNCHANGED <<fdSpecs, stored, cached, idpStore, now, faults, snapshot, validator, idx,
                   issuers, errs, updateCalls, computed, seen>>

----------------------------------------------------------------------------
(* The cluster around the controller *)

IdpUniverse ==
    {IdPResource(KindOIDC, "n1", "u1"),
     IdPResource(KindLDAP, "n1", "u2"),
     IdPResource(KindAD, "n2", "u3")}

\* the IdP resources operators create and delete while the controller runs
DynamicIdps == {IdPResource(KindOIDC, "n1", "u1")}

\* an operator creates an IdP resource of resources and its informer delivers
\* the add event
IdPCreateOf(resources) ==
    /\ events < MaxEvents
    /\ events' = events + 1
    /\ \E r \in resources \ idpStore :
          /\ idpStore' = idpStore \cup {r}
          /\ Deliver(r.kind, "add")
    /\ UNCHANGED <<handlerVars, admissionVars, webhookVars>>
    /\ UNCHANGED <<fdSpecs, stored, cached, now, faults, pc, syncLocals, returned, published,
                   setCalls, updateCalls, computed, seen>>

\* an operator deletes one and its informer delivers the delete event
IdPDeleteOf(resources) ==
    /\ events < MaxEvents
    /\ events' = events + 1
    /\ \E r \in idpStore \cap resources :
          /\ idpStore' = idpStore \ {r}
          /\ Deliver(r.kind, "delete")
    /\ UNCHANGED <<handlerVars, admissionVars, webhookVars>>
    /\ UNCHANGED <<fdSpecs, stored, cached, now, faults, pc, syncLocals, returned, published,
                   setCalls, updateCalls, computed, seen>>

IdPCreate == IdPCreateOf(DynamicIdps)
    /\ UNCHANGED <<handlerVars, admissionVars, webhookVars>>
    /\ UNCHANGED <<fdSpecs, stored, cached, now, faults, pc, syncLocals, returned, published,
                   setCalls, updateCalls, computed, seen>>

IdPDelete == IdPDeleteOf(DynamicIdps)

\* the clock advances
Tick ==
    /\ now < MaxTime
    /\ now' = now + 1
    /\ UNCHANGED triggerVars
    /\ UNCHANGED <<handlerVars, admissionVars, webhookVars>>
    /\ UNCHANGED <<fdSpecs, stored, cached, idpStore, faults, pc, syncLocals, returned,
                   published, setCalls, updateCalls, computed, seen>>

\* the FederationDomain informer catches up with the API server: the update
\* event of a status the controller wrote
InformerObserve ==
    /\ cached # stored
    /\ cached' = stored
    /\ Deliver(KindFederationDomain, "update")
    /\ UNCHANGED events
    /\ UNCHANGED <<handlerVars, admissionVars, webhookVars>>
    /\ UNCHANGED <<fdSpecs, stored, idpStore, now, faults, pc, syncLocals, returned, published,
                   setCalls, updateCalls, computed, seen>>

\* an operator changes an IdP resource: its name and UID stay, and its
\* informer delivers the update event
IdPUpdate ==
    /\ events < MaxEvents
    /\ events' = events + 1
    /\ \E r \in idpStore : Deliver(r.kind, "update")
    /\ UNCHANGED <<handlerVars, admissionVars, webhookVars>>
    /\ UNCHANGED <<fdSpecs, stored, cached, idpStore, now, faults, pc, syncLocals, returned,
                   published, setCalls, updateCalls, computed, seen>>

Without(list, i) == [k \in 1..(Len(list) - 1) |-> IF k < i THEN list[k] ELSE list[k + 1]]

\* an operator creates a FederationDomain of one of names with a spec of specSet
FdCreateOf(names, specSet) ==
    /\ events < MaxEvents
    /\ events' = events + 1
    /\ \E n \in names \ Names(fdSpecs) : \E sp \in specSet :
          /\ fdSpecs' = Append(fdSpecs, [name |-> n, generation |-> 1, spec |-> sp])
          /\ stored' = [m \in Names(fdSpecs) \cup {n} |->
                           IF m = n THEN NoStatus ELSE stored[m]]
          /\ cached' = [m \in Names(fdSpecs) \cup {n} |->
                           IF m = n THEN NoStatus ELSE cached[m]]
    /\ Deliver(KindFederationDomain, "add")
    /\ UNCHANGED <<handlerVars, admissionVars, webhookVars>>
    /\ UNCHANGED <<idpStore, now, faults, pc, syncLocals, returned, published, setCalls,
                   updateCalls, computed, seen>>

\* an operator changes the spec of a FederationDomain
FdUpdateOf(specSet) ==
    /\ events < MaxEvents
    /\ events' = events + 1
    /\ \E i \in 1..Len(fdSpecs) : \E sp \in specSet \ {fdSpecs[i].spec} :
          fdSpecs' = [fdSpecs EXCEPT ![i].spec = sp, ![i].generation = @ + 1]
    /\ Deliver(KindFederationDomain, "update")
    /\ UNCHANGED <<handlerVars, admissionVars, webhookVars>>
    /\ UNCHANGED <<stored, cached, idpStore, now, faults, pc, syncLocals, returned, published,
                   setCalls, updateCalls, computed, seen>>

\* an operator deletes a FederationDomain
FdDelete ==
    /\ events < MaxEvents
    /\ events' = events + 1
    /\ \E i \in 1..Len(fdSpecs) :
          /\ fdSpecs' = Without(fdSpecs, i)
          /\ stored' = [m \in Names(fdSpecs) \ {fdSpecs[i].name} |-> stored[m]]
          /\ cached' = [m \in Names(fdSpecs) \ {fdSpecs[i].name} |-> cached[m]]
    /\ Deliver(KindFederationDomain, "delete")
    /\ UNCHANGED <<handlerVars, admissionVars, webhookVars>>
    /\ UNCHANGED <<idpStore, now, faults, pc, syncLocals, returned, published, setCalls,
                   updateCalls, computed, seen>>

\* the worker of the controller takes the key off the queue and runs Sync
Worker ==
    /\ SingletonQueue \in queue
    /\ SyncStart

\* an authorize request reads the published set
AuthorizeRead ==
    /\ seen' = published
    /\ seen' # seen
    /\ UNCHANGED triggerVars
    /\ UNCHANGED <<handlerVars, admissionVars, webhookVars>>
    /\ UNCHANGED <<fdSpecs, stored, cached, idpStore, now, faults, pc, syncLocals, returned,
                   published, setCalls, updateCalls, computed>>

----------------------------------------------------------------------------
(* The authorization endpoint: names the handler uses *)

promptParamName == "prompt"
promptParamNone == "none"

AuthorizeUpstreamIDPNameParamName == "pinniped_idp_name"
AuthorizeUpstreamIDPTypeParamName == "pinniped_idp_type"
AuthorizeUsernameHeaderName == "Pinniped-Username"
AuthorizePasswordHeaderName == "Pinniped-Password"
ClientIDPinnipedCLI == "pinniped-cli"
ScopeOpenID == "openid"
ScopeGroups == "groups"
ScopeOfflineAccess == "offline_access"
ChooseIDPEndpointPath == "/choose_identity_provider"
CSRFCookieName == "__Host-pinniped-csrf"
CSRFCookieEncodingName == "oidc-csrf-cookie"
UpstreamStateParamEncodingName == "oidc-upstream-state-param"
UpstreamStateParamFormatVersion == "2"

MethodGet == "GET"
MethodPost == "POST"
StatusSeeOther == 303
StatusMethodNotAllowed == 405

\* csrftoken.CSRFToken(""): tokens are numbers, the empty token is the number 0
NoToken == 0

----------------------------------------------------------------------------
(* net/url and net/http: query strings, forms, headers *)

\* url.QueryUnescape on the raw values of the model; err for a bad escape
QueryUnescape(raw) ==
    IF raw = "%zz" THEN [err |-> TRUE, value |-> ""]
    ELSE IF raw \in {"openid%20groups", "openid+groups"}
    THEN [err |-> FALSE, value |-> "openid groups"]
    ELSE [err |-> FALSE, value |-> raw]

\* url.QueryEscape: a space is written as +
QueryEscape(value) == IF value = "openid groups" THEN "openid+groups" ELSE value

\* the values of key k among the pairs <<key, raw value>>, in order, the
\* pairs with a bad escape left out
ValuesOf(pairs, k) ==
    LET good == SelectSeq(pairs, LAMBDA p : p[1] = k /\ ~QueryUnescape(p[2]).err)
    IN [i \in 1..Len(good) |-> QueryUnescape(good[i][2]).value]

\* url.ParseQuery: every pair that can be read, and whether one could not
ParseQuery(pairs) ==
    LET keys == {pairs[i][1] : i \in {j \in 1..Len(pairs) : ~QueryUnescape(pairs[j][2]).err}}
    IN [err |-> \E i \in 1..Len(pairs) : QueryUnescape(pairs[i][2]).err,
        values |-> [k \in keys |-> ValuesOf(pairs, k)]]

\* copyValues(dst, src): the values of src appended to those of dst
copyValues(dst, src) ==
    [k \in DOMAIN dst \cup DOMAIN src |->
        (IF k \in DOMAIN dst THEN dst[k] ELSE <<>>)
        \o (IF k \in DOMAIN src THEN src[k] ELSE <<>>)]

NoValues == [k \in {} |-> <<>>]

\* url.Values.Get: the first value of the key, or ""
FormGet(values, k) ==
    IF k \in DOMAIN values /\ Len(values[k]) > 0 THEN values[k][1] ELSE ""

\* the parameter names of the model in the order sort.Strings gives them
ParamOrder ==
    <<"client_id", "pinniped_idp_name", "pinniped_idp_type", "prompt", "scope", "state">>

RECURSIVE EncodeFrom(_, _)
EncodeFrom(values, order) ==
    IF order = <<>> THEN <<>>
    ELSE (IF Head(order) \in DOMAIN values
          THEN [i \in 1..Len(values[Head(order)]) |->
                   <<Head(order), QueryEscape(values[Head(order)][i])>>]
          ELSE <<>>)
         \o EncodeFrom(values, Tail(order))

\* a slip: one value kept for each key
FormEncodeFirstValues(values) ==
    EncodeFrom([k \in DOMAIN values |-> SubSeq(values[k], 1, 1)], ParamOrder)

\* url.Values.Encode: key=value pairs sorted by key, the values escaped
FormEncode(values) == EncodeFrom(values, ParamOrder)

\* an HTTP request as the handler reads it
Request(method, query, body, username, password, cookie) ==
    [method |-> method, query |-> query, body |-> body,
     username |-> username, password |-> password, cookie |-> cookie]

Body(contentType, pairs, malformed) ==
    [contentType |-> contentType, pairs |-> pairs, malformed |-> malformed]

NoBody == Body("", <<>>, FALSE)

\* http.Request.ParseForm: r.Form holds the values of a urlencoded POST body
\* first and the values of the query after them
ParseForm(r) ==
    LET post == IF r.method = MethodPost
                   /\ r.body.contentType = "application/x-www-form-urlencoded"
                THEN ParseQuery(r.body.pairs)
                ELSE [err |-> FALSE, values |-> NoValues]
        query == ParseQuery(r.query)
    IN [err |-> post.err \/ query.err,
        Form |-> copyValues(post.values, query.values)]

\* http.Request.ParseMultipartForm: ErrNotMultipart is not an error here; the
\* values of a multipart body are appended to r.Form
ParseMultipartForm(r, form) ==
    IF r.body.contentType # "multipart/form-data"
    THEN [err |-> FALSE, Form |-> form]
    ELSE IF r.body.malformed
    THEN [err |-> TRUE, Form |-> form]
    ELSE [err |-> FALSE, Form |-> copyValues(form, ParseQuery(r.body.pairs).values)]

\* http.Header.Values and http.Header.Get
HeaderValues(values) == values
HeaderGet(values) == IF Len(values) > 0 THEN values[1] ELSE ""

----------------------------------------------------------------------------
(* The symmetric codec for the upstream state and the CSRF cookie *)

\* an encoded value: the payload sealed with a key under an encoding name; a
\* plain string is a value sealed under no name with no key
Sealed(name, key, payload) == [encodingName |-> name, key |-> key, payload |-> payload]

Plain(text) == Sealed("", "", [text |-> text])

CodecKey == "current"

Encode(name, payload) == Sealed(name, CodecKey, payload)

\* Decode: an error for a value of another name or sealed with another key
Decode(name, value) ==
    IF value.encodingName = name /\ value.key = CodecKey
    THEN [err |-> FALSE, payload |-> value.payload]
    ELSE [err |-> TRUE, payload |-> [CSRFToken |-> NoToken]]

----------------------------------------------------------------------------
(* The response writer, with the calls made while serving one request *)

NoLocation == [base |-> <<>>, query |-> <<>>]

NewResponseWriter ==
    [status |-> 0, by |-> "", location |-> NoLocation, setCookies |-> <<>>,
     error |-> "", hint |-> <<>>, helper |-> "", browserless |-> FALSE,
     writes |-> 0, calls |-> <<>>, requesterForm |-> NoValues]

\* a call to a collaborator, with the OAuth2 helper it was made on, if any
Called(w, name, helper) ==
    [w EXCEPT !.calls = Append(@, [name |-> name, helper |-> helper])]

\* WriteHeader: the first status written is the response
WriteHeader(w, by, status, location) ==
    IF w.writes > 0 THEN [w EXCEPT !.writes = @ + 1]
    ELSE [w EXCEPT !.writes = 1, !.by = by, !.status = status, !.location = location]

\* responseutil.HTTPErrorf
HTTPErrorf(w, status) == WriteHeader(Called(w, "HTTPErrorf", ""), "HTTPErrorf", status, NoLocation)

\* http.Redirect
Redirect(w, location, status) ==
    WriteHeader(Called(w, "Redirect", ""), "Redirect", status, location)

\* http.SetCookie
SetCookie(w, cookie) ==
    [Called(w, "SetCookie", "") EXCEPT !.setCookies = Append(@, cookie)]

----------------------------------------------------------------------------
(* fosite: the OAuth2 helpers, errors and the authorize requester *)

WithStorage == "oauthHelperWithStorage"
WithoutStorage == "oauthHelperWithoutStorage"

FositeError(name, hint) == [name |-> name, hint |-> hint]
NoError == FositeError("", <<>>)
ErrInvalidRequest == "invalid_request"
ErrInvalidClient == "invalid_client"
ErrAccessDenied == "access_denied"
ErrServerError == "server_error"
ErrLoginRequired == "login_required"

RegisteredClients == {ClientIDPinnipedCLI, "dynamic-client"}

\* the scopes named by a scope parameter
ScopesOf(value) ==
    IF value = "openid groups" THEN {ScopeOpenID, ScopeGroups}
    ELSE IF value = "" THEN {}
    ELSE {value}

\* fosite.NewAuthorizeRequest(): the empty requester
EmptyAuthorizeRequest ==
    [client |-> "", form |-> NoValues, requestedScopes |-> {}, grantedScopes |-> {},
     state |-> "", redirectURI |-> ""]

\* OAuth2Provider.NewAuthorizeRequest: the requester read from the form, and
\* an error for a client that is not registered
NewAuthorizeRequest(form) ==
    LET client == FormGet(form, "client_id")
    IN IF client \notin RegisteredClients
       THEN [err |-> FositeError(ErrInvalidClient, <<>>),
             requester |-> [EmptyAuthorizeRequest EXCEPT !.form = form,
                                                         !.state = FormGet(form, "state")]]
       ELSE [err |-> NoError,
             requester |-> [client |-> client, form |-> form,
                            requestedScopes |-> ScopesOf(FormGet(form, "scope")),
                            grantedScopes |-> {},
                            state |-> FormGet(form, "state"),
                            redirectURI |-> "client-callback"]]

\* downstreamsession.AutoApproveScopes
AutoApproveScopes(requester) ==
    [requester EXCEPT !.grantedScopes =
        requester.requestedScopes \cap {ScopeOpenID, ScopeOfflineAccess}]

\* oidc.ScopeWasRequested
ScopeWasRequested(requester, scope) == scope \in requester.requestedScopes

\* oidc.WriteAuthorizeError: the one place that renders an error, a redirect
\* to the client's redirect URI with error, error_description and state
WriteAuthorizeError(w, helper, requester, err, isBrowserless) ==
    LET called == Called(w, "WriteAuthorizeError", helper)
        location == [base |-> <<requester.redirectURI>>,
                     query |-> <<<<"error", Plain(err.name)>>,
                                 <<"state", Plain(requester.state)>>>>]
        wrote == WriteHeader(called, "WriteAuthorizeError", StatusSeeOther, location)
    IN IF w.writes > 0 THEN wrote
       ELSE [wrote EXCEPT !.error = err.name, !.hint = err.hint, !.helper = helper,
                          !.browserless = isBrowserless]

\* oidc.PerformAuthcodeRedirect: the session is stored with the code and the
\* client is redirected to its redirect URI with code and state
PerformAuthcodeRedirect(w, helper, requester, session) ==
    LET called == Called(w, "PerformAuthcodeRedirect", helper)
        location == [base |-> <<requester.redirectURI>>,
                     query |-> <<<<"code", Plain("authcode")>>,
                                 <<"state", Plain(requester.state)>>>>]
    IN [WriteHeader(called, "PerformAuthcodeRedirect", StatusSeeOther, location)
            EXCEPT !.helper = helper]

----------------------------------------------------------------------------
(* The identity providers of the handler's FederationDomain *)

\* resolvedprovider.FederationDomainResolvedIdentityProvider
ResolvedProvider(displayName, sessionProviderType, transforms) ==
    [DisplayName |-> displayName, SessionProviderType |-> sessionProviderType,
     Transforms |-> transforms]

NoProvider == ResolvedProvider("", "", <<>>)

\* FederationDomainIdentityProvidersFinderI: a default provider (none or
\* one) and the providers listed by display name
Finder(defaultIdentityProvider, identityProviders) ==
    [defaultIdentityProvider |-> defaultIdentityProvider,
     identityProviders |-> identityProviders]

HasDefaultIDP(finder) == finder.defaultIdentityProvider # <<>>

IDPCount(finder) == Len(finder.identityProviders)

FindDefaultIDP(finder) ==
    IF HasDefaultIDP(finder)
    THEN [err |-> FALSE, idp |-> finder.defaultIdentityProvider[1]]
    ELSE [err |-> TRUE, idp |-> NoProvider]

FindUpstreamIDPByDisplayName(idpDisplayName, finder) ==
    LET all == finder.identityProviders \o finder.defaultIdentityProvider
        hit == SelectSeq(all, LAMBDA p : p.DisplayName = idpDisplayName)
    IN IF hit = <<>> THEN [err |-> TRUE, idp |-> NoProvider]
       ELSE [err |-> FALSE, idp |-> hit[1]]

\* the policy expression of the model: everyone but the user "contractor"
PolicyExpression == "username != \"contractor\""

\* one transformation applied to a username: a policy/v1 expression allows
\* or rejects, the others leave the identity as it is
TransformAllows(transform, username) ==
    ~(transform.type = "policy/v1" /\ transform.expression = PolicyExpression
      /\ username = "contractor")

\* downstreamsession.ApplyIdentityTransformations: the message of the first
\* policy that rejects, or an error of the pipeline itself
ApplyIdentityTransformations(transforms, username, groups, failing) ==
    LET rejecting == SelectSeq(transforms, LAMBDA t : ~TransformAllows(t, username))
    IN IF "ApplyIdentityTransformations" \in failing
       THEN [err |-> TRUE, message |-> "identity transformation error",
             username |-> "", groups |-> {}]
       ELSE IF rejecting # <<>>
       THEN [err |-> TRUE, message |-> rejecting[1].message, username |-> "", groups |-> {}]
       ELSE [err |-> FALSE, message |-> "", username |-> username, groups |-> groups]

\* idp.Login: the upstream accepts or refuses the credentials
Login(idp, username, password, groupsWillBeIgnored, failing) ==
    IF "Login" \in failing
    THEN [err |-> FositeError(ErrAccessDenied, <<"Username/password not accepted.">>),
          identity |-> [UpstreamUsername |-> "", UpstreamGroups |-> {}]]
    ELSE [err |-> NoError,
          identity |-> [UpstreamUsername |-> username, UpstreamGroups |-> {}]]

\* idp.UpstreamAuthorizeRedirectURL: the upstream's authorize URL carrying the
\* encoded state, the nonce and the PKCE challenge
UpstreamAuthorizeRedirectURL(idp, state, downstreamIssuerURL, failing) ==
    IF "UpstreamAuthorizeRedirectURL" \in failing
    THEN [err |-> FositeError(ErrServerError, <<"upstream redirect URL">>),
          redirectURL |-> NoLocation]
    ELSE [err |-> NoError,
          redirectURL |->
              [base |-> <<"upstream", idp.DisplayName, "/authorize">>,
               query |-> <<<<"state", state.EncodedStateParam>>,
                           <<"nonce", Plain(state.Nonce)>>,
                           <<"code_challenge", Plain(state.PKCE)>>>>]]

----------------------------------------------------------------------------
(* The authorize handler *)

\* the handler for one issuer; the generators return the values given here
Handler(downstreamIssuerURL, finder, csrf) ==
    [downstreamIssuerURL |-> downstreamIssuerURL, idpFinder |-> finder,
     generateCSRF |-> csrf, generateNonce |-> "nonce", generatePKCE |-> "pkce"]

\* a slip: the chooser is shown whenever no IdP is named
serveChooserWhenUnnamed(finder, idpNameQueryParamValue, requestedBrowserlessFlow) ==
    idpNameQueryParamValue = ""

shouldShowIDPChooser(finder, idpNameQueryParamValue, requestedBrowserlessFlow) ==
    LET clientDidNotRequestSpecificIDP == idpNameQueryParamValue = ""
        clientRequestedBrowserBasedFlow == ~requestedBrowserlessFlow
        inBackwardsCompatMode == HasDefaultIDP(finder)
        federationDomainSpecHasSomeValidIDPs == IDPCount(finder) > 0
    IN /\ clientDidNotRequestSpecificIDP
       /\ clientRequestedBrowserBasedFlow
       /\ ~inBackwardsCompatMode
       /\ federationDomainSpecHasSomeValidIDPs

\* a slip: any client may send the credential headers
requireStaticClientAnyClient(requester) == NoError

requireStaticClientForUsernameAndPasswordHeaders(requester) ==
    IF requester.client # ClientIDPinnipedCLI
    THEN FositeError(ErrAccessDenied,
             <<"This client is not allowed to submit username or password headers to this endpoint.">>)
    ELSE NoError

requireNonEmptyUsernameAndPasswordHeaders(r) ==
    LET username == HeaderGet(r.username)
        password == HeaderGet(r.password)
    IN IF username = "" \/ password = ""
       THEN [err |-> FositeError(ErrAccessDenied, <<"Missing or blank username or password.">>),
             username |-> "", password |-> ""]
       ELSE [err |-> NoError, username |-> username, password |-> password]

\* a slip: the error of the codec not looked at
readCSRFCookieIgnoringError(r) ==
    IF r.cookie = <<>> THEN NoToken ELSE r.cookie[1].payload.CSRFToken

\* a slip: the cookie decoded under the name of the upstream state
readCSRFCookieUnderStateName(r) ==
    IF r.cookie = <<>> THEN NoToken
    ELSE LET decoded == Decode(UpstreamStateParamEncodingName, r.cookie[1])
         IN IF decoded.err THEN NoToken ELSE decoded.payload.CSRFToken

readCSRFCookie(r) ==
    IF r.cookie = <<>> THEN NoToken
    ELSE LET decoded == Decode(CSRFCookieEncodingName, r.cookie[1])
         IN IF decoded.err THEN NoToken ELSE decoded.payload.CSRFToken

\* a slip: without a name the first listed provider is taken
chooseUpstreamIDPFirstListed(idpDisplayName, idpLister) ==
    IF idpDisplayName # "" THEN FindUpstreamIDPByDisplayName(idpDisplayName, idpLister)
    ELSE IF HasDefaultIDP(idpLister) \/ IDPCount(idpLister) = 0 THEN FindDefaultIDP(idpLister)
    ELSE [err |-> FALSE, idp |-> idpLister.identityProviders[1]]

chooseUpstreamIDP(idpDisplayName, idpLister) ==
    IF idpDisplayName = "" THEN FindDefaultIDP(idpLister)
    ELSE FindUpstreamIDPByDisplayName(idpDisplayName, idpLister)

\* a slip: the error of the nonce generator not looked at
generateValuesIgnoringNonceError(w, h, failing) ==
    LET w1 == Called(w, "generateCSRF", "")
        w2 == Called(w1, "generateNonce", "")
        w3 == Called(w2, "generatePKCE", "")
        none == [err |-> TRUE, csrfValue |-> NoToken, nonceValue |-> "", pkceValue |-> ""]
    IN IF "generateCSRF" \in failing THEN none @@ [w |-> w1]
       ELSE IF "generatePKCE" \in failing THEN none @@ [w |-> w3]
       ELSE [err |-> FALSE, csrfValue |-> h.generateCSRF,
             nonceValue |-> IF "generateNonce" \in failing THEN "" ELSE h.generateNonce,
             pkceValue |-> h.generatePKCE, w |-> w3]

\* the three generators called in turn, stopping at the first that fails
generateValues(w, h, failing) ==
    LET w1 == Called(w, "generateCSRF", "")
        w2 == Called(w1, "generateNonce", "")
        w3 == Called(w2, "generatePKCE", "")
        none == [err |-> TRUE, csrfValue |-> NoToken, nonceValue |-> "", pkceValue |-> ""]
    IN IF "generateCSRF" \in failing THEN none @@ [w |-> w1]
       ELSE IF "generateNonce" \in failing THEN none @@ [w |-> w2]
       ELSE IF "generatePKCE" \in failing THEN none @@ [w |-> w3]
       ELSE [err |-> FALSE, csrfValue |-> h.generateCSRF, nonceValue |-> h.generateNonce,
             pkceValue |-> h.generatePKCE, w |-> w3]

\* a slip: the two parameters deleted from the values that were passed in
removeCustomIDPParamsInPlace(params) ==
    LET p == [k \in DOMAIN params \ {AuthorizeUpstreamIDPNameParamName,
                                     AuthorizeUpstreamIDPTypeParamName} |-> params[k]]
    IN [p |-> p, params |-> p]

\* the copy p without the two parameters, and the values that were passed
\* in as they are after the call
removeCustomIDPParams(params) ==
    LET p == [k \in DOMAIN params \ {AuthorizeUpstreamIDPNameParamName,
                                     AuthorizeUpstreamIDPTypeParamName} |-> params[k]]
    IN [p |-> p, params |-> params]

\* a slip: the name taken from the request parameter
upstreamStateParamNameFromRequest(w, requester, upstreamDisplayName, upstreamType, nonceValue, csrfValue, pkceValue, failing) ==
    [err |-> FALSE,
     w |-> [Called(w, "upstreamStateEncoder.Encode", "")
                EXCEPT !.requesterForm = removeCustomIDPParams(requester.form).params],
     encoded |-> Encode(UpstreamStateParamEncodingName,
                   [AuthParams |-> FormEncode(removeCustomIDPParams(requester.form).p),
                    UpstreamName |-> FormGet(requester.form, AuthorizeUpstreamIDPNameParamName),
                    UpstreamType |-> upstreamType,
                    Nonce |-> nonceValue,
                    CSRFToken |-> csrfValue,
                    PKCECode |-> pkceValue,
                    FormatVersion |-> UpstreamStateParamFormatVersion])]

upstreamStateParam(w, requester, upstreamDisplayName, upstreamType, nonceValue, csrfValue, pkceValue, failing) ==
    LET stateParamData ==
            [AuthParams |-> FormEncode(removeCustomIDPParams(requester.form).p),
             UpstreamName |-> upstreamDisplayName,
             UpstreamType |-> upstreamType,
             Nonce |-> nonceValue,
             CSRFToken |-> csrfValue,
             PKCECode |-> pkceValue,
             FormatVersion |-> UpstreamStateParamFormatVersion]
        called == [Called(w, "upstreamStateEncoder.Encode", "")
                      EXCEPT !.requesterForm = removeCustomIDPParams(requester.form).params]
    IN IF "upstreamStateEncoder.Encode" \in failing
       THEN [err |-> TRUE, w |-> called, encoded |-> Plain("")]
       ELSE [err |-> FALSE, w |-> called,
             encoded |-> Encode(UpstreamStateParamEncodingName, stateParamData)]

\* a slip: the cookie without the Secure attribute
CSRFCookieWithoutSecure(encodedCSRFValue) ==
    [Name |-> CSRFCookieName, Value |-> encodedCSRFValue, HttpOnly |-> TRUE,
     SameSite |-> "Lax", Secure |-> FALSE, Path |-> "/"]

CSRFCookie(encodedCSRFValue) ==
    [Name |-> CSRFCookieName, Value |-> encodedCSRFValue, HttpOnly |-> TRUE,
     SameSite |-> "Lax", Secure |-> TRUE, Path |-> "/"]

addCSRFSetCookieHeader(w, csrfValue, failing) ==
    LET called == Called(w, "cookieCodec.Encode", "")
    IN IF "cookieCodec.Encode" \in failing
       THEN [err |-> TRUE, w |-> called]
       ELSE [err |-> FALSE,
             w |-> SetCookie(called,
                      CSRFCookie(Encode(CSRFCookieEncodingName, [CSRFToken |-> csrfValue])))]

NoState == [EncodedStateParam |-> Plain(""), PKCE |-> "", Nonce |-> ""]

\* a slip: the prompt alone decides
promptNoneAlone(requester) == FormGet(requester.form, promptParamName) = promptParamNone

\* a slip: the prompt check left out
promptNoneWithOpenIDSkipped(requester) == FALSE

\* prompt=none together with the openid scope
promptNoneWithOpenID(requester) ==
    /\ FormGet(requester.form, promptParamName) = promptParamNone
    /\ ScopeWasRequested(requester, ScopeOpenID)

\* a slip: the generated token kept although the cookie holds one
csrfValueIgnoringCookie(csrfValue, csrfFromCookie) == csrfValue

\* the token of the cookie when there is one, the generated token otherwise
csrfValueFor(csrfValue, csrfFromCookie) ==
    IF csrfFromCookie # NoToken THEN csrfFromCookie ELSE csrfValue

generateUpstreamAuthorizeRequestState(r, w, requester, helper, h, upstreamDisplayName, idpType, failing) ==
    LET w1 == Called(w, "NewAuthorizeResponse", helper)
        values == generateValues(w1, h, failing)
        csrfFromCookie == readCSRFCookie(r)
        csrfValue == csrfValueFor(values.csrfValue, csrfFromCookie)
        encoded == upstreamStateParam(values.w, requester, upstreamDisplayName, idpType,
                                      values.nonceValue, csrfValue, values.pkceValue, failing)
        cookie == addCSRFSetCookieHeader(encoded.w, csrfValue, failing)
    IN IF "NewAuthorizeResponse" \in failing
       THEN [w |-> w1, err |-> FositeError(ErrInvalidRequest, <<"response validation">>),
             state |-> NoState]
       ELSE IF values.err
       THEN [w |-> values.w,
             err |-> FositeError(ErrServerError, <<"Server could not generate necessary values.">>),
             state |-> NoState]
       ELSE IF encoded.err
       THEN [w |-> encoded.w,
             err |-> FositeError(ErrServerError, <<"Error encoding upstream state param.">>),
             state |-> NoState]
       ELSE IF promptNoneWithOpenID([requester EXCEPT !.form = encoded.w.requesterForm])
       THEN [w |-> encoded.w, err |-> FositeError(ErrLoginRequired, <<>>), state |-> NoState]
       ELSE IF csrfFromCookie = NoToken /\ cookie.err
       THEN [w |-> cookie.w,
             err |-> FositeError(ErrServerError, <<"Error encoding CSRF cookie.">>),
             state |-> NoState]
       ELSE [w |-> IF csrfFromCookie = NoToken THEN cookie.w ELSE encoded.w,
             err |-> NoError,
             state |-> [EncodedStateParam |-> encoded.encoded,
                        PKCE |-> values.pkceValue, Nonce |-> values.nonceValue]]

authorizeWithBrowser(h, r, w, helper, requester, idp, failing) ==
    LET made == generateUpstreamAuthorizeRequestState(r, w, requester, helper, h,
                    idp.DisplayName, idp.SessionProviderType, failing)
        called == Called(made.w, "UpstreamAuthorizeRedirectURL", "")
        url == UpstreamAuthorizeRedirectURL(idp, made.state, h.downstreamIssuerURL, failing)
    IN IF made.err # NoError THEN [w |-> made.w, err |-> made.err]
       ELSE IF url.err # NoError THEN [w |-> called, err |-> url.err]
       ELSE [w |-> Redirect(called, url.redirectURL, StatusSeeOther), err |-> NoError]

\* a slip: the message of the pipeline passed on without the "Reason"
rejectionErrorBare(message) == FositeError(ErrAccessDenied, <<message>>)

\* fosite.ErrAccessDenied.WithHintf("Reason: %s.", err.Error())
rejectionError(message) == FositeError(ErrAccessDenied, <<"Reason: ", message, ".">>)

authorizeWithoutBrowser(h, r, w, helper, requester, idp, failing) ==
    LET static == requireStaticClientForUsernameAndPasswordHeaders(requester)
        submitted == requireNonEmptyUsernameAndPasswordHeaders(r)
        groupsWillBeIgnored == ScopeGroups \notin requester.grantedScopes
        w1 == Called(w, "Login", "")
        login == Login(idp, submitted.username, submitted.password, groupsWillBeIgnored, failing)
        w2 == Called(w1, "ApplyIdentityTransformations", "")
        applied == ApplyIdentityTransformations(idp.Transforms, login.identity.UpstreamUsername,
                                                login.identity.UpstreamGroups, failing)
        w3 == Called(w2, "NewPinnipedSession", "")
        session == [UpstreamIdentity |-> login.identity, Username |-> applied.username,
                    Groups |-> applied.groups, ClientID |-> requester.client,
                    GrantedScopes |-> requester.grantedScopes]
    IN IF static # NoError THEN [w |-> w, err |-> static]
       ELSE IF submitted.err # NoError THEN [w |-> w, err |-> submitted.err]
       ELSE IF login.err # NoError THEN [w |-> w1, err |-> login.err]
       ELSE IF applied.err
       THEN [w |-> w2, err |-> rejectionError(applied.message)]
       ELSE [w |-> PerformAuthcodeRedirect(w3, helper, requester, session), err |-> NoError]

\* a slip: the helper with storage for every request
oauthHelperAlwaysWithStorage(requestedBrowserlessFlow) == WithStorage

\* the helper without storage, and the one with storage for a browserless request
oauthHelperFor(requestedBrowserlessFlow) ==
    IF requestedBrowserlessFlow THEN WithStorage ELSE WithoutStorage

\* a slip: every request given to the browser flow
runsWithoutBrowserNever(requestedBrowserlessFlow) == FALSE

\* the flow a request is given to
runsWithoutBrowser(requestedBrowserlessFlow) == requestedBrowserlessFlow

\* a slip: the error written whatever the flow returned
writeFlowErrorAlways(w, oauthHelper, authorizeRequester, err, requestedBrowserlessFlow) ==
    WriteAuthorizeError(w, oauthHelper, authorizeRequester, err, requestedBrowserlessFlow)

\* the error a flow returned is written, and nothing when it returned none
writeFlowError(w, oauthHelper, authorizeRequester, err, requestedBrowserlessFlow) ==
    IF err # NoError
    THEN WriteAuthorizeError(w, oauthHelper, authorizeRequester, err, requestedBrowserlessFlow)
    ELSE w

authorize(h, r, w, form, requestedBrowserlessFlow, idpNameQueryParamValue, idp, failing) ==
    LET oauthHelper == oauthHelperFor(requestedBrowserlessFlow)
        w1 == Called(w, "NewAuthorizeRequest", oauthHelper)
        new == NewAuthorizeRequest(form)
        authorizeRequester == AutoApproveScopes(new.requester)
        done == IF runsWithoutBrowser(requestedBrowserlessFlow)
                THEN authorizeWithoutBrowser(h, r, w1, oauthHelper, authorizeRequester, idp, failing)
                ELSE authorizeWithBrowser(h, r, w1, oauthHelper, authorizeRequester, idp, failing)
    IN IF new.err # NoError
       THEN WriteAuthorizeError(w1, oauthHelper, new.requester, new.err,
                                requestedBrowserlessFlow)
       ELSE writeFlowError(done.w, oauthHelper, authorizeRequester, done.err,
                           requestedBrowserlessFlow)

\* a slip: a header with an empty value not counted
requestedBrowserlessFlowNonEmptyHeader(r) ==
    HeaderGet(r.username) # "" \/ HeaderGet(r.password) # ""

\* the client set a username or password header
requestedBrowserlessFlowOf(r) ==
    Len(HeaderValues(r.username)) > 0 \/ Len(HeaderValues(r.password)) > 0

\* a slip: every method served
methodAllowedAny(method) == TRUE

methodAllowed(method) == method = MethodPost \/ method = MethodGet

\* ServeHTTP: the response writer after the request has been served
ServeHTTP(h, r, failing) ==
    LET w == NewResponseWriter
        requestedBrowserlessFlow == requestedBrowserlessFlowOf(r)
        parsed == ParseForm(r)
        multipart == ParseMultipartForm(r, parsed.Form)
        Form == multipart.Form
        idpNameQueryParamValue == FormGet(Form, AuthorizeUpstreamIDPNameParamName)
        found == chooseUpstreamIDP(idpNameQueryParamValue, h.idpFinder)
        w1 == Called(w, "ParseForm", "")
        w2 == Called(w1, "ParseMultipartForm", "")
        w3 == Called(w2, "chooseUpstreamIDP", "")
    IN IF ~methodAllowed(r.method)
       THEN HTTPErrorf(w, StatusMethodNotAllowed)
       ELSE IF parsed.err
       THEN WriteAuthorizeError(w1, WithoutStorage, EmptyAuthorizeRequest,
                FositeError(ErrInvalidRequest, <<"Unable to parse form params">>),
                requestedBrowserlessFlow)
       ELSE IF multipart.err
       THEN WriteAuthorizeError(w2, WithoutStorage, EmptyAuthorizeRequest,
                FositeError(ErrInvalidRequest, <<"Unable to parse multipart HTTP body">>),
                requestedBrowserlessFlow)
       ELSE IF shouldShowIDPChooser(h.idpFinder, idpNameQueryParamValue,
                                    requestedBrowserlessFlow)
       THEN Redirect(w2,
                [base |-> <<h.downstreamIssuerURL, ChooseIDPEndpointPath>>,
                 query |-> [i \in 1..Len(FormEncode(Form)) |->
                              <<FormEncode(Form)[i][1], Plain(FormEncode(Form)[i][2])>>]],
                StatusSeeOther)
       ELSE IF found.err
       THEN WriteAuthorizeError(w3, WithoutStorage, EmptyAuthorizeRequest,
                FositeError(ErrInvalidRequest,
                            <<AuthorizeUpstreamIDPNameParamName, " param error">>),
                requestedBrowserlessFlow)
       ELSE authorize(h, r, w3, Form, requestedBrowserlessFlow, idpNameQueryParamValue,
                      found.idp, failing)

----------------------------------------------------------------------------
(* Serving requests: one action for the handler, one for the user agent *)

DownstreamIssuerURL == "https://a/p"

NoRequest == Request("", <<>>, NoBody, <<>>, <<>>, <<>>)

\* the handler serves one request from start to end
Serve(requests, failures) ==
    /\ request = NoRequest
    /\ served < MaxRequests
    /\ \E r \in requests, f \in failures :
          /\ request' = [r EXCEPT !.cookie = cookieJar]
          /\ faulty' = f
          /\ response' = ServeHTTP(Handler(DownstreamIssuerURL, idpFinder, served + 1),
                                   request', f)
    /\ UNCHANGED <<idpFinder, cookieJar, served>>
    /\ UNCHANGED <<controllerVars, admissionVars, webhookVars>>

\* the user agent takes the response: it keeps the cookie a Set-Cookie gave it
UserAgentReceives ==
    /\ request # NoRequest
    /\ cookieJar' = IF response.setCookies # <<>>
                    THEN <<response.setCookies[Len(response.setCookies)].Value>>
                    ELSE cookieJar
    /\ served' = served + 1
    /\ request' = NoRequest
    /\ faulty' = {}
    /\ response' = NewResponseWriter
    /\ UNCHANGED idpFinder
    /\ UNCHANGED <<controllerVars, admissionVars, webhookVars>>

----------------------------------------------------------------------------
(* Inputs *)

FdName == <<"fd1", "fd2", "fd3", "fd4">>

NoTLS == [set |-> FALSE, secretName |-> ""]
TLSSecret(name) == [set |-> TRUE, secretName |-> name]

IssuerA == IssuerString("https", "a", "", "/p", FALSE)
IssuerUpperA == IssuerString("https", "A", "", "/p", FALSE)
IssuerAPort == IssuerString("https", "a", ":444", "/p", FALSE)
IssuerB == IssuerString("https", "b", "", "/p", FALSE)
IssuerHTTP == IssuerString("http", "a", "", "/p", FALSE)
IssuerMalformed == IssuerString("https", "a", "", "/%zz", TRUE)

Expr(type, expression, message) ==
    [type |-> type, expression |-> expression, message |-> message]

Ref(displayName, kind, name, expressions) ==
    [displayName |-> displayName,
     objectRef |-> [kind |-> kind, name |-> name],
     transforms |-> [expressions |-> expressions, examples |-> <<>>]]

\* one entry of transforms.examples
Example(username, groups, rejected, message, expectsUsername, expectsGroups) ==
    [username |-> username, groups |-> groups,
     expects |-> [rejected |-> rejected, message |-> message,
                  username |-> expectsUsername, groups |-> expectsGroups]]

RefWithExamples(ref, examples) == [ref EXCEPT !.transforms.examples = examples]

RefOIDC == Ref("d1", KindOIDC, "n1", <<Expr("username/v1", "username", "")>>)
RefLDAP == Ref("d2", KindLDAP, "n1", <<>>)
RefAD == Ref("d3", KindAD, "n2", <<>>)
RefGitHub == Ref("d4", KindGitHub, "n1", <<>>)
RefBadExpression == Ref("d1", KindOIDC, "n1", <<Expr("policy/v1", BadExpression, "no")>>)
RefBadType == Ref("d2", KindLDAP, "n1", <<Expr("email/v1", "username", "")>>)

RefChoices == {RefOIDC, RefLDAP, RefAD, RefGitHub, RefBadExpression, RefBadType}

FdSpec(issuer, tls, identityProviders) ==
    [issuer |-> issuer, tls |-> tls, identityProviders |-> identityProviders]

SeqsUpTo(S, n) == UNION {[1..k -> S] : k \in 0..n}

\* the controller after construction, for FederationDomains with specs of specSet
InitController(specSet, counts, stores, faultBudgets) ==
    /\ \E n \in counts : \E f \in [1..n -> specSet] :
          fdSpecs = [i \in 1..n |-> [name |-> FdName[i], generation |-> 1, spec |-> f[i]]]
    /\ stored = [n \in Names(fdSpecs) |-> NoStatus]
    /\ cached = stored
    /\ idpStore \in stores
    /\ now = 0
    /\ faults \in faultBudgets
    /\ pc = "idle"
    /\ snapshot = <<>>
    /\ validator = newCrossFederationDomainConfigValidator(<<>>)
    /\ idx = 1
    /\ issuers = <<>>
    /\ errs = <<>>
    /\ returned = <<>>
    /\ published = <<>>
    /\ setCalls = 0
    /\ updateCalls = <<>>
    /\ computed = [n \in Names(fdSpecs) |-> <<>>]
    /\ seen = <<>>
    /\ lastEvent = [informer |-> KindFederationDomain, op |-> "add"]
    /\ queue = Enqueue(KindFederationDomain, "add", {})
    /\ events = 0

\* requests to the authorization endpoint
\* the pairs of one parameter: none for an absent parameter
Pairs(k, values) == [i \in 1..Len(values) |-> <<k, values[i]>>]

\* a query string as a client writes it: state first, the IdP name last
Query(state, scope, client, prompt, idpName) ==
    Pairs("state", state) \o Pairs("scope", scope) \o Pairs("client_id", client)
    \o Pairs(promptParamName, prompt) \o Pairs(AuthorizeUpstreamIDPNameParamName, idpName)

IdPNames == {<<>>, <<"d1">>, <<"zz">>}
Clients == {<<ClientIDPinnipedCLI>>, <<"dynamic-client">>, <<"unknown-client">>}
Prompts == {<<>>, <<promptParamNone>>}
Scopes == {<<"openid%20groups">>, <<"groups">>}

\* requests without credential headers
BrowserRequests ==
    {Request(m, Query(<<"cs">>, s, c, p, n), NoBody, <<>>, <<>>, <<>>) :
        m \in {MethodGet, MethodPost}, s \in Scopes, c \in Clients, p \in Prompts,
        n \in IdPNames}

CredentialHeaders ==
    {<<u, p>> \in {<<>>, <<"">>, <<"alice">>, <<"contractor">>} \X {<<>>, <<"">>, <<"pw">>} :
        u # <<>> \/ p # <<>>}

\* requests with a username or a password header
BrowserlessRequests ==
    {Request(m, Query(<<"cs">>, <<"openid+groups">>, c, <<>>, n), NoBody, h[1], h[2], <<>>) :
        m \in {MethodGet, MethodPost}, c \in Clients, n \in IdPNames,
        h \in CredentialHeaders}

FormBody(pairs) == Body("application/x-www-form-urlencoded", pairs, FALSE)

\* requests of other methods, requests that cannot be parsed, requests with
\* a form body, with an empty IdP name, without a state
OtherRequests ==
    {Request(m, Query(<<"cs">>, <<"groups">>, <<ClientIDPinnipedCLI>>, <<>>, n), NoBody,
             u, u, <<>>) :
        m \in {"PUT", "DELETE", "HEAD"}, n \in {<<>>, <<"d1">>}, u \in {<<>>, <<"alice">>}}
    \cup
    {Request(m, Query(<<"%zz">>, <<"groups">>, <<ClientIDPinnipedCLI>>, <<>>, <<"d1">>),
             NoBody, u, u, <<>>) :
        m \in {MethodGet, MethodPost}, u \in {<<>>, <<"alice">>}}
    \cup
    {Request(MethodPost, Query(<<>>, <<"groups">>, <<ClientIDPinnipedCLI>>, <<>>, <<>>),
             b, u, u, <<>>) :
        b \in {FormBody(Pairs("state", <<"cs">>)),
               FormBody(Pairs(AuthorizeUpstreamIDPNameParamName, <<"d1">>)),
               FormBody(Pairs("state", <<"%zz">>)),
               Body("multipart/form-data", Pairs("state", <<"cs">>), FALSE),
               Body("multipart/form-data", <<>>, TRUE)},
        u \in {<<>>, <<"alice">>}}
    \cup
    {Request(MethodGet,
             Query(s, <<"groups">>, <<ClientIDPinnipedCLI>>, <<>>, n)
             \o Pairs(AuthorizeUpstreamIDPTypeParamName, t),
             NoBody, <<>>, <<>>, <<>>) :
        s \in {<<>>, <<"cs", "cs2">>}, n \in {<<"">>, <<>>, <<"d1">>},
        t \in {<<>>, <<"oidc">>}}

Requests == BrowserRequests \cup BrowserlessRequests \cup OtherRequests

\* the collaborators that can fail while a request is served
Collaborators ==
    {"NewAuthorizeResponse", "generateCSRF", "generateNonce", "generatePKCE",
     "upstreamStateEncoder.Encode", "cookieCodec.Encode", "UpstreamAuthorizeRedirectURL",
     "Login", "ApplyIdentityTransformations"}

\* no failure, or the failure of one collaborator
Failures == {{}} \cup {{c} : c \in Collaborators}

PolicyTransform ==
    [type |-> "policy/v1", expression |-> PolicyExpression, message |-> "no contractors"]

ProviderD1 == ResolvedProvider("d1", "oidc", <<PolicyTransform>>)
ProviderD2 == ResolvedProvider("d2", "ldap", <<>>)
ProviderDefault == ResolvedProvider("n1", "activedirectory", <<>>)

NoFinder == Finder(<<>>, <<>>)

\* a domain in back-compat mode, domains with one and with two listed
\* providers, a domain with none
Finders ==
    {Finder(<<ProviderDefault>>, <<>>), Finder(<<>>, <<ProviderD1>>),
     Finder(<<>>, <<ProviderD1, ProviderD2>>), NoFinder}

\* a cookie sealed with a key the codec no longer has
StaleCookie == Sealed(CSRFCookieEncodingName, "rotated", [CSRFToken |-> 9])

\* a value the codec made under the name of the upstream state, held as cookie
MisplacedCookie == Sealed(UpstreamStateParamEncodingName, CodecKey, [CSRFToken |-> 8])

\* a cookie of this codec that holds the empty token
EmptyTokenCookie == Sealed(CSRFCookieEncodingName, CodecKey, [CSRFToken |-> NoToken])

\* the cookies a user agent may hold before its first request
Jars == {<<>>, <<StaleCookie>>, <<EmptyTokenCookie>>, <<MisplacedCookie>>}

InitHandler(finders, jars) ==
    /\ idpFinder \in finders
    /\ cookieJar \in jars
    /\ served = 0
    /\ request = NoRequest
    /\ faulty = {}
    /\ response = NewResponseWriter

\* the API server before a resource is submitted
NoCandidate == <<>>

InitAdmission(candidates) ==
    /\ candidate \in candidates
    /\ outcome = <<>>

\* the webhook before start is called
InitWebhook ==
    /\ ctx = "live"
    /\ server = "new"
    /\ errCh = <<>>
    /\ serveGoroutine = "none"
    /\ watchGoroutine = "none"
    /\ conns = [active |-> 0, idle |-> 0]
    /\ klog = <<>>
    /\ listener = "open"
    /\ runPc = "startWebhook"

\* the state after construction: the controller, and a handler no request reaches
InitWith(specSet, counts, stores, faultBudgets) ==
    /\ InitController(specSet, counts, stores, faultBudgets)
    /\ InitHandler({NoFinder}, {<<>>})
    /\ InitAdmission({NoCandidate})
    /\ InitWebhook

\* the controller in a changing cluster
GeneralSpecs ==
    {FdSpec(IssuerA, NoTLS, <<>>),
     FdSpec(IssuerUpperA, TLSSecret("s1"), <<RefOIDC>>),
     FdSpec(IssuerAPort, TLSSecret("s2"), <<RefLDAP>>),
     FdSpec(IssuerB, NoTLS, <<RefOIDC, RefAD>>),
     FdSpec(IssuerMalformed, NoTLS, <<>>)}

GeneralStores == {{}, {IdPResource(KindOIDC, "n1", "u1")}, IdpUniverse}

Init == InitWith(GeneralSpecs, 1..NumDomains, GeneralStores, {MaxFaults})

NextSync ==
    \/ SyncStart
    \/ SyncDomain
    \/ SyncPublish

Spec == Init /\ [][NextSync]_vars

\* the controller in a changing cluster, next to the request path
LiveSpecs ==
    {FdSpec(IssuerA, NoTLS, <<>>),
     FdSpec(IssuerB, NoTLS, <<RefOIDC>>),
     FdSpec(IssuerUpperA, TLSSecret("s1"), <<RefLDAP>>)}

InitLive == InitWith(LiveSpecs, 1..NumDomains, {{}}, {0})

NextLive ==
    \/ SyncStart
    \/ SyncDomain
    \/ SyncPublish
    \/ IdPCreate
    \/ IdPDelete
    \/ AuthorizeRead

SpecLive == InitLive /\ [][NextLive]_vars

\* one FederationDomain, its status and the clock
InitClock == InitWith(GeneralSpecs, {1}, {{}}, {0, 1})

NextClock ==
    \/ SyncStart
    \/ SyncDomain
    \/ SyncPublish
    \/ IdPCreate
    \/ IdPDelete
    \/ InformerObserve
    \/ Tick

SpecClock == InitClock /\ [][NextClock]_vars

\* the controller fed from its work queue, and operators who change the
\* FederationDomain and IdP resources
TriggerSpecs == {FdSpec(IssuerA, NoTLS, <<>>), FdSpec(IssuerB, NoTLS, <<RefLDAP>>)}

TriggerNames == {FdName[1], FdName[2]}

TriggerIdps == {IdPResource(KindOIDC, "n1", "u1"), IdPResource(KindLDAP, "n1", "u2")}

InitTriggers ==
    InitWith(TriggerSpecs, {1}, {{IdPResource(KindAD, "n2", "u3")}}, {0})

FdCreate == FdCreateOf(TriggerNames, TriggerSpecs)

FdUpdate == FdUpdateOf(TriggerSpecs)

IdPCreateAny == IdPCreateOf(TriggerIdps)

IdPDeleteAny == IdPDeleteOf(IdpUniverse)

NextTriggers ==
    \/ Worker
    \/ SyncDomain
    \/ SyncPublish
    \/ InformerObserve
    \/ FdCreate
    \/ FdUpdate
    \/ FdDelete
    \/ IdPCreateAny
    \/ IdPDeleteAny
    \/ IdPUpdate

SpecTriggers == InitTriggers /\ [][NextTriggers]_vars

\* cross-domain validation over every combination of issuer and TLS secret
CrossSpecs ==
    {FdSpec(i, t, <<>>) :
        i \in {IssuerA, IssuerUpperA, IssuerAPort, IssuerB, IssuerMalformed},
        t \in {NoTLS, TLSSecret(""), TLSSecret("s1"), TLSSecret("s2")}}

InitCross == InitWith(CrossSpecs, 1..NumDomains, {{IdPResource(KindOIDC, "n1", "u1")}}, {0})

SpecCross == InitCross /\ [][NextSync]_vars

\* identity-provider resolution of one FederationDomain over every list of refs
IdpSpecs ==
    {FdSpec(i, NoTLS, l) : i \in {IssuerA, IssuerHTTP}, l \in SeqsUpTo(RefChoices, MaxIdps)}

InitIdp == InitWith(IdpSpecs, {1}, SUBSET IdpUniverse, {0})

SpecIdp == InitIdp /\ [][NextSync]_vars

\* the authorization endpoint of one published issuer, and a user agent
InitAuthorize ==
    /\ InitController({FdSpec(IssuerA, NoTLS, <<>>)}, {1}, {{}}, {0})
    /\ InitHandler(Finders, Jars)
    /\ InitAdmission({NoCandidate})
    /\ InitWebhook

ServeAny == Serve(Requests, Failures)

NextAuthorize ==
    \/ ServeAny
    \/ UserAgentReceives

SpecAuthorize == InitAuthorize /\ [][NextAuthorize]_vars

----------------------------------------------------------------------------
(* Properties of the controller *)

ConditionTypes ==
    {typeReady, typeIssuerURLValid, typeOneTLSSecretPerIssuerHostname,
     typeIssuerIsUnique, typeIdentityProvidersFound}

\* the conditions of one type that the current/last Sync computed for a domain
CondsOf(name, type) ==
    {computed[name][i] : i \in {j \in 1..Len(computed[name]) : computed[name][j].type = type}}

Is(name, type, status, reason) ==
    \A c \in CondsOf(name, type) : c.status = status /\ c.reason = reason

HasOne(name, type) ==
    Cardinality({j \in 1..Len(computed[name]) : computed[name][j].type = type}) = 1

AllFiveTrue(name) ==
    /\ \A t \in ConditionTypes : HasOne(name, t)
    /\ \A i \in 1..Len(computed[name]) : computed[name][i].status = ConditionTrue

SomeNonTrue(name) ==
    \E i \in 1..Len(computed[name]) : computed[name][i].status # ConditionTrue

NamesIn(list) == {list[k].fd : k \in 1..Len(list)}

SyncDone == pc = "done"

\* C1: after a Sync every FederationDomain of the list passed to
\* SetFederationDomains has IssuerURLValid, IssuerIsUnique,
\* OneTLSSecretPerIssuerHostname, IdentityProvidersFound and Ready all True in
\* the status that Sync computed, and a domain with a condition that is False
\* or Unknown is not in the list.
C1_PublishedAllTrue ==
    /\ pc \in {"loop", "done"} => \A n \in NamesIn(issuers) : AllFiveTrue(n)
    /\ SyncDone => /\ \A n \in NamesIn(published) : AllFiveTrue(n)
                   /\ \A n \in Names(fdSpecs) : SomeNonTrue(n) => n \notin NamesIn(published)

\* C1 witness: a Sync published one domain and withheld another for a
\* condition that is not True
C1_Witness ==
    /\ SyncDone
    /\ returned = <<>>
    /\ \E n \in NamesIn(published) : AllFiveTrue(n)
    /\ \E n \in Names(fdSpecs) \ NamesIn(published) :
          \E c \in CondsOf(n, typeIssuerIsUnique) : c.status = ConditionUnknown

\* C2: the published set is replaced only by the one SetFederationDomains call
\* at the end of Sync, with the whole list, so a request reading it while a
\* Sync runs gets the list of an earlier Sync as a whole or the new one as a whole.
C2_AtomicReplacement ==
    [][/\ (setCalls' # setCalls /\ pc = "loop") =>
              /\ idx > Len(snapshot)
              /\ published' = issuers
              /\ setCalls' = 1
              /\ pc' = "done"
       /\ published' # published => (pc = "loop" /\ pc' = "done")
       /\ (pc = "loop" /\ pc' = "done") => setCalls' = 1
       /\ seen' # seen => (seen' = published /\ published' = published)]_vars

\* C2 witness: a request holds the set of the earlier Sync while the running
\* Sync has built a different, shorter list
C2_Witness ==
    /\ pc = "loop"
    /\ idx > 1
    /\ idx <= Len(snapshot)
    /\ seen = published
    /\ Len(published) = 2
    /\ Len(issuers) = 1
    /\ setCalls = 0

----------------------------------------------------------------------------
(* Cross-domain validation, stated on the specs of the FederationDomains *)

SpecOf(i) == fdSpecs[i].spec

IssuerParses(i) == ~SpecOf(i).issuer.malformed

\* scheme://lower(host)path, the host with its port
IssuerKeyOf(i) ==
    <<SpecOf(i).issuer.scheme, ToLowerHost(SpecOf(i).issuer.host),
      SpecOf(i).issuer.port, SpecOf(i).issuer.path>>

SameIssuerKey(i, j) ==
    IssuerParses(i) /\ IssuerParses(j) /\ IssuerKeyOf(i) = IssuerKeyOf(j)

DomainIndices == 1..Len(fdSpecs)

\* C3: FederationDomains with the same issuer key all get IssuerIsUnique=False
\* with reason DuplicateIssuer and Ready=False and none of them is published;
\* a domain whose issuer key occurs once gets IssuerIsUnique=True.
C3_DuplicateIssuer ==
    SyncDone =>
        \A i \in DomainIndices :
            IssuerParses(i) =>
                /\ HasOne(FdName[i], typeIssuerIsUnique)
                /\ HasOne(FdName[i], typeReady)
                /\ IF \E j \in DomainIndices \ {i} : SameIssuerKey(i, j)
                   THEN /\ Is(FdName[i], typeIssuerIsUnique, ConditionFalse,
                              reasonDuplicateIssuer)
                        /\ Is(FdName[i], typeReady, ConditionFalse, reasonNotReady)
                        /\ FdName[i] \notin NamesIn(published)
                   ELSE Is(FdName[i], typeIssuerIsUnique, ConditionTrue, reasonSuccess)

\* C3 witness: two domains whose issuers differ only in the case of the host
\* were both refused as duplicates
C3_Witness ==
    /\ SyncDone
    /\ \E i, j \in DomainIndices :
          /\ i # j
          /\ SameIssuerKey(i, j)
          /\ SpecOf(i).issuer # SpecOf(j).issuer
          /\ HasOne(FdName[i], typeIssuerIsUnique)
          /\ Is(FdName[i], typeIssuerIsUnique, ConditionFalse, reasonDuplicateIssuer)
          /\ Is(FdName[j], typeIssuerIsUnique, ConditionFalse, reasonDuplicateIssuer)

\* the domains whose issuer has the same lowercased host, the port ignored
HostGroup(i) ==
    {j \in DomainIndices :
        /\ IssuerParses(j)
        /\ ToLowerHost(SpecOf(j).issuer.host) = ToLowerHost(SpecOf(i).issuer.host)}

SpecifiesSecret(j) == SpecOf(j).tls.set /\ SpecOf(j).tls.secretName # ""

\* some domain of the group names a secret and not all of the group name that one
GroupNotAllSameSecret(i) ==
    \E d \in HostGroup(i) :
        /\ SpecifiesSecret(d)
        /\ \E e \in HostGroup(i) :
              ~(SpecifiesSecret(e) /\ SpecOf(e).tls.secretName = SpecOf(d).tls.secretName)

\* C4 as claimed: in a group of domains with the same hostname, if any names a
\* TLS secret then all must name that secret; OneTLSSecretPerIssuerHostname is
\* False on every domain of a group that breaks this and True otherwise.
C4_AsClaimed ==
    SyncDone =>
        \A i \in DomainIndices :
            IssuerParses(i) =>
                \A c \in CondsOf(FdName[i], typeOneTLSSecretPerIssuerHostname) :
                    c.status = IF GroupNotAllSameSecret(i) THEN ConditionFalse
                               ELSE ConditionTrue

\* the secretName values of the domains of the group that have a spec.tls
GroupSecretNames(i) ==
    {SpecOf(j).tls.secretName : j \in {k \in HostGroup(i) : SpecOf(k).tls.set}}

\* C4: OneTLSSecretPerIssuerHostname is False (DifferentSecretRefsFound) on
\* every domain of a hostname group exactly when the domains of the group that
\* have a spec.tls block carry two or more different secretName values, and
\* True on every domain of the group otherwise; a domain without spec.tls adds
\* no name.
C4_DifferentSecretNames ==
    SyncDone =>
        \A i \in DomainIndices :
            IssuerParses(i) =>
                /\ HasOne(FdName[i], typeOneTLSSecretPerIssuerHostname)
                /\ IF Cardinality(GroupSecretNames(i)) > 1
                   THEN Is(FdName[i], typeOneTLSSecretPerIssuerHostname, ConditionFalse,
                           reasonDifferentSecretRefsFound)
                   ELSE Is(FdName[i], typeOneTLSSecretPerIssuerHostname, ConditionTrue,
                           reasonSuccess)

\* C4 witness: of two domains on one hostname (one with a port) one names a
\* secret and the other has no spec.tls, and the condition is True on both
C4_Witness ==
    /\ SyncDone
    /\ \E i, j \in DomainIndices :
          /\ j \in HostGroup(i)
          /\ SpecOf(i).issuer.port # SpecOf(j).issuer.port
          /\ SpecifiesSecret(i)
          /\ ~SpecOf(j).tls.set
          /\ HasOne(FdName[i], typeOneTLSSecretPerIssuerHostname)
          /\ Is(FdName[i], typeOneTLSSecretPerIssuerHostname, ConditionTrue, reasonSuccess)
          /\ Is(FdName[j], typeOneTLSSecretPerIssuerHostname, ConditionTrue, reasonSuccess)

----------------------------------------------------------------------------
(* Identity-provider resolution, stated on the spec and the IdP resources *)

KnownKinds == {KindOIDC, KindLDAP, KindAD}

IdpsOf(i) == SpecOf(i).identityProviders

ResourcesFor(ref) ==
    {r \in idpStore : r.kind = ref.objectRef.kind /\ r.name = ref.objectRef.name}

\* the entry names a resource of a kind the controller watches, and it exists
RefResolves(ref) == ref.objectRef.kind \in KnownKinds /\ ResourcesFor(ref) # {}

\* the entry names a resource of a watched kind that the lister does not have
RefNotFound(ref) == ref.objectRef.kind \in KnownKinds /\ ResourcesFor(ref) = {}

ProvidersOf(entry) ==
    {entry.issuer.identityProviders[k] : k \in 1..Len(entry.issuer.identityProviders)}
    \cup {entry.issuer.defaultIdentityProvider[k] :
             k \in 1..Len(entry.issuer.defaultIdentityProvider)}

PublishedEntries == {published[k] : k \in 1..Len(published)}

\* C5: every identity provider of every published issuer carries the UID of an
\* IdP resource the informers hold, and a FederationDomain with an entry that
\* does not resolve (not found, or of a kind that is none of the three) has a
\* condition that is not True and is not published.
C5_AsClaimed ==
    SyncDone =>
        /\ \A e \in PublishedEntries :
              \A pr \in ProvidersOf(e) : pr.UID \in {r.uid : r \in idpStore}
        /\ \A i \in DomainIndices :
              (\E k \in 1..Len(IdpsOf(i)) : ~RefResolves(IdpsOf(i)[k])) =>
                  /\ SomeNonTrue(FdName[i])
                  /\ FdName[i] \notin NamesIn(published)

ExpressionTypes == {"username/v1", "groups/v1", "policy/v1"}

ExpressionFails(e) == e.type \notin ExpressionTypes \/ e.expression = BadExpression

HasFailingExpression(i) ==
    \E k \in 1..Len(IdpsOf(i)) :
        \E x \in 1..Len(IdpsOf(i)[k].transforms.expressions) :
            ExpressionFails(IdpsOf(i)[k].transforms.expressions[x])

\* C6: a FederationDomain with a transform expression that does not compile,
\* or of a type that is none of username/v1, groups/v1, policy/v1, is not
\* published by the Sync and the status the Sync computed carries a condition
\* that is not True.
C6_AsClaimed ==
    SyncDone =>
        \A i \in DomainIndices :
            HasFailingExpression(i) =>
                /\ FdName[i] \notin NamesIn(published)
                /\ SomeNonTrue(FdName[i])

MissingIndices(i) == {k \in 1..Len(IdpsOf(i)) : RefNotFound(IdpsOf(i)[k])}

\* refs lists the entries of missing, each as <<displayName, 0-based index>>,
\* in ascending order of the index
ListsExactly(refs, i, missing) ==
    /\ Len(refs) = Cardinality(missing)
    /\ \A k \in missing :
          refs[Cardinality({m \in missing : m < k}) + 1]
              = <<IdpsOf(i)[k].displayName, k - 1>>

\* C7: for a non-empty spec.identityProviders, when some objectRef names a
\* resource the lister does not have, IdentityProvidersFound is False with
\* reason IdentityProvidersObjectRefsNotFound, its message lists exactly those
\* entries by displayName and index in ascending order, and the domain is not
\* published; when every ref is found it is True with reason Success; one
\* IdentityProvidersFound condition is computed per domain per Sync.
C7_ObjectRefsNotFound ==
    SyncDone =>
        \A i \in DomainIndices :
            /\ HasOne(FdName[i], typeIdentityProvidersFound)
            /\ (Len(IdpsOf(i)) # 0 /\ MissingIndices(i) # {}) =>
                  /\ Is(FdName[i], typeIdentityProvidersFound, ConditionFalse,
                        reasonIdentityProvidersObjectRefsNotFound)
                  /\ \A c \in CondsOf(FdName[i], typeIdentityProvidersFound) :
                        ListsExactly(c.message.refs, i, MissingIndices(i))
                  /\ FdName[i] \notin NamesIn(published)
            /\ (Len(IdpsOf(i)) # 0 /\ \A k \in 1..Len(IdpsOf(i)) : RefResolves(IdpsOf(i)[k])) =>
                  Is(FdName[i], typeIdentityProvidersFound, ConditionTrue, reasonSuccess)

\* C7 witness: of two or more entries the second is missing and the first is
\* found, and the message names the second alone
C7_Witness ==
    /\ SyncDone
    /\ \E i \in DomainIndices :
          /\ Len(IdpsOf(i)) >= 2
          /\ RefResolves(IdpsOf(i)[1])
          /\ MissingIndices(i) = {2}
          /\ \E c \in CondsOf(FdName[i], typeIdentityProvidersFound) :
                /\ c.status = ConditionFalse
                /\ c.message.refs = <<<<IdpsOf(i)[2].displayName, 1>>>>

IssuerValid(i) == IssuerParses(i) /\ SpecOf(i).issuer.scheme = "https"

\* C8: for an empty spec.identityProviders the outcome depends on the number
\* n of IdP resources alone: n = 1 gives IdentityProvidersFound=True with reason
\* LegacyConfigurationSuccess and that IdP as the issuer's default provider,
\* with displayName its name, its UID and an empty pipeline; n = 0 gives False
\* with LegacyConfigurationIdentityProviderNotFound; n >= 2 gives False with
\* IdentityProviderNotSpecified.
C8_LegacyConfiguration ==
    SyncDone =>
        \A i \in DomainIndices :
            Len(IdpsOf(i)) = 0 =>
                /\ HasOne(FdName[i], typeIdentityProvidersFound)
                /\ Cardinality(idpStore) = 1 =>
                      /\ Is(FdName[i], typeIdentityProvidersFound, ConditionTrue,
                            reasonLegacyConfigurationSuccess)
                      /\ IssuerValid(i) =>
                            \E e \in PublishedEntries :
                                /\ e.fd = FdName[i]
                                /\ e.issuer.identityProviders = <<>>
                                /\ \E r \in idpStore :
                                      e.issuer.defaultIdentityProvider =
                                          <<[DisplayName |-> r.name, UID |-> r.uid,
                                             Transforms |-> <<>>]>>
                /\ Cardinality(idpStore) = 0 =>
                      /\ Is(FdName[i], typeIdentityProvidersFound, ConditionFalse,
                            reasonLegacyConfigurationIdentityProviderNotFound)
                      /\ FdName[i] \notin NamesIn(published)
                /\ Cardinality(idpStore) >= 2 =>
                      /\ Is(FdName[i], typeIdentityProvidersFound, ConditionFalse,
                            reasonIdentityProviderNotSpecified)
                      /\ FdName[i] \notin NamesIn(published)

\* C8 witness: the sole IdP resource, an ActiveDirectory one, became the
\* default provider of a published issuer
C8_Witness ==
    /\ SyncDone
    /\ \E i \in DomainIndices :
          /\ Len(IdpsOf(i)) = 0
          /\ idpStore = {IdPResource(KindAD, "n2", "u3")}
          /\ \E e \in PublishedEntries :
                /\ e.fd = FdName[i]
                /\ e.issuer.defaultIdentityProvider =
                      <<[DisplayName |-> "n2", UID |-> "u3", Transforms |-> <<>>]>>

----------------------------------------------------------------------------
(* Status writes *)

\* the observed status already says what the Sync computed: the phase, and one
\* condition per computed condition with its status, reason, message and the
\* generation, whatever the transition times
StatusUpToDate(status, conditions, generation) ==
    /\ status.phase =
          (IF \A k \in 1..Len(conditions) : conditions[k].status = ConditionTrue
           THEN FederationDomainPhaseReady ELSE FederationDomainPhaseError)
    /\ Len(status.conditions) = Len(conditions)
    /\ \A k \in 1..Len(conditions) :
          \E m \in 1..Len(status.conditions) :
              /\ status.conditions[m].type = conditions[k].type
              /\ status.conditions[m].status = conditions[k].status
              /\ status.conditions[m].reason = conditions[k].reason
              /\ status.conditions[m].message = conditions[k].message
              /\ status.conditions[m].observedGeneration = generation

\* C9: a Sync calls UpdateStatus for a domain exactly when the status it
\* computed differs from the status the informer holds; once the informer has
\* the status an earlier Sync wrote and nothing changed, no call is made,
\* whatever the clock says.
C9_NoRedundantUpdateStatus ==
    [][(pc = "loop" /\ idx' = idx + 1) =>
          ((updateCalls' # updateCalls) <=>
              ~StatusUpToDate(snapshot[idx].status, computed'[snapshot[idx].name],
                              snapshot[idx].generation))]_vars

\* C9 witness: a Sync ended without any UpdateStatus call at a time later than
\* every transition time of the status it found
C9_Witness ==
    /\ SyncDone
    /\ updateCalls = <<>>
    /\ Len(snapshot) >= 1
    /\ Len(snapshot[1].status.conditions) = 5
    /\ cached[snapshot[1].name] = snapshot[1].status
    /\ \A m \in 1..5 : snapshot[1].status.conditions[m].lastTransitionTime < now

FailedCalls == SelectSeq(updateCalls, LAMBDA c : c.failed)

\* C10: when UpdateStatus fails for some FederationDomains, Sync still goes
\* through every domain, calls SetFederationDomains once at the end and returns
\* an aggregate with one error per failed update; without a failed update it
\* returns nil.
C10_AggregatedErrors ==
    SyncDone =>
        /\ idx = Len(snapshot) + 1
        /\ \A n \in Names(fdSpecs) : computed[n] # <<>>
        /\ setCalls = 1
        /\ Len(returned) = Len(FailedCalls)
        /\ \A k \in 1..Len(returned) : returned[k] = FailedCalls[k].object.name
        /\ (FailedCalls = <<>>) <=> (returned = <<>>)

\* C10 witness: the update of one domain failed and a domain after it was
\* still published
C10_Witness ==
    /\ SyncDone
    /\ setCalls = 1
    /\ Len(snapshot) >= 2
    /\ returned = <<snapshot[1].name>>
    /\ \E k \in 2..Len(snapshot) : snapshot[k].name \in NamesIn(published)

\* the object the Sync step at position idx sends to UpdateStatus, when it sends one
SentAt(calls) == calls[Len(calls)].object

\* C11: the object Sync sends to UpdateStatus has the name, generation and
\* spec of the object the lister returned and differs from it in
\* status.phase and status.conditions alone, and a Sync step leaves the
\* objects of the informer cache, the list it took from the lister and the
\* FederationDomain resources themselves as they were.
C11_OnlyStatusWritten ==
    [][(pc = "loop" /\ idx' = idx + 1) =>
          /\ cached' = cached
          /\ snapshot' = snapshot
          /\ fdSpecs' = fdSpecs
          /\ updateCalls' # updateCalls =>
                /\ Len(updateCalls') = Len(updateCalls) + 1
                /\ DOMAIN SentAt(updateCalls') = DOMAIN snapshot[idx]
                /\ DOMAIN SentAt(updateCalls').status = {"phase", "conditions"}
                /\ [SentAt(updateCalls') EXCEPT !.status = snapshot[idx].status]
                      = snapshot[idx]
                /\ SentAt(updateCalls').status # snapshot[idx].status
                /\ ~updateCalls'[Len(updateCalls')].failed =>
                      stored'[snapshot[idx].name] = SentAt(updateCalls').status]_vars

\* C11 witness: a Sync wrote a new phase and new conditions for a domain whose
\* resource, cached object and listed object are what they were before
C11_Witness ==
    /\ SyncDone
    /\ Len(updateCalls) >= 1
    /\ ~updateCalls[1].failed
    /\ updateCalls[1].object.status.phase = FederationDomainPhaseReady
    /\ Len(updateCalls[1].object.status.conditions) = 5
    /\ snapshot[1].status = NoStatus
    /\ cached[snapshot[1].name] = NoStatus
    /\ updateCalls[1].object.spec = fdSpecs[1].spec
    /\ updateCalls[1].object.generation = fdSpecs[1].generation

----------------------------------------------------------------------------
(* Properties of the authorize handler, stated on the request being        *)
(* answered and the response written for it                                *)

Serving == request # NoRequest

BrowserlessRequest == Serving /\ (request.username # <<>> \/ request.password # <<>>)

BrowserRequest == Serving /\ request.username = <<>> /\ request.password = <<>>

HasCall(name) == \E i \in 1..Len(response.calls) : response.calls[i].name = name

\* position of the first call of the name in the calls of this request
CallAt(name) ==
    CHOOSE i \in 1..Len(response.calls) :
        /\ response.calls[i].name = name
        /\ \A j \in 1..(i - 1) : response.calls[j].name # name

MethodServed == request.method \in {MethodGet, MethodPost}

FormParses ==
    /\ ~ParseForm(request).err
    /\ ~ParseMultipartForm(request, ParseForm(request).Form).err

\* the parameters of the request, of its query and of its body
RequestForm == ParseMultipartForm(request, ParseForm(request).Form).Form

NamedIdP == FormGet(RequestForm, AuthorizeUpstreamIDPNameParamName)

ResolvedIdP == chooseUpstreamIDP(NamedIdP, idpFinder)

ChooserBase == <<DownstreamIssuerURL, ChooseIDPEndpointPath>>

RedirectedToChooser == response.by = "Redirect" /\ response.location.base = ChooserBase

RedirectedUpstream == response.by = "Redirect" /\ response.location.base # ChooserBase

StateParams(location) == SelectSeq(location.query, LAMBDA p : p[1] = "state")

\* the Location has one state parameter and it decodes to an upstream state
\* that names the provider resolved for the request
StateNamesResolvedIdP ==
    LET params == StateParams(response.location)
    IN /\ Len(params) = 1
       /\ ~Decode(UpstreamStateParamEncodingName, params[1][2]).err
       /\ ~ResolvedIdP.err
       /\ Decode(UpstreamStateParamEncodingName, params[1][2]).payload.UpstreamName
             = ResolvedIdP.idp.DisplayName

\* C12 as claimed: every response to a browser request with status 302 or 303
\* has exactly one state parameter in its Location, which decodes to an
\* upstream state whose UpstreamName is the display name of the resolved IdP.
C12_AsClaimed ==
    (BrowserRequest /\ response.status \in {302, 303}) => StateNamesResolvedIdP

\* C12: every response to a browser request that redirects to the upstream
\* IdP has exactly one state parameter in its Location, which decodes to an
\* upstream state whose UpstreamName is the display name of the IdP resolved
\* for the request; the redirect to the chooser and the error redirects carry
\* the client's own state parameter, if any.
C12_UpstreamRedirectState ==
    /\ (BrowserRequest /\ RedirectedUpstream) =>
          /\ response.status = StatusSeeOther
          /\ StateNamesResolvedIdP
    /\ (Serving /\ RedirectedToChooser) =>
          \A i \in 1..Len(StateParams(response.location)) :
              Decode(UpstreamStateParamEncodingName,
                     StateParams(response.location)[i][2]).err

\* C12 witness: a request without an IdP name to a domain in back-compat mode
\* was redirected upstream with a state naming the default provider
C12_Witness ==
    /\ BrowserRequest
    /\ RedirectedUpstream
    /\ NamedIdP = ""
    /\ StateNamesResolvedIdP
    /\ ResolvedIdP.idp.DisplayName = "n1"

\* the token of the cookie the request carries, when it decodes
InboundToken ==
    IF request.cookie = <<>> THEN NoToken
    ELSE IF Decode(CSRFCookieEncodingName, request.cookie[1]).err THEN NoToken
    ELSE Decode(CSRFCookieEncodingName, request.cookie[1]).payload.CSRFToken

\* the cookie the user agent holds once it has taken the response
AgentCookieAfter ==
    IF response.setCookies # <<>>
    THEN <<response.setCookies[Len(response.setCookies)].Value>>
    ELSE request.cookie

UpstreamStateOf(location) ==
    Decode(UpstreamStateParamEncodingName, StateParams(location)[1][2]).payload

\* C13: in a response to a browser request that redirects upstream, the CSRF
\* token of the encoded state is the token of the cookie the user agent holds
\* after the response: the token of the inbound cookie, with no Set-Cookie,
\* when that cookie decodes to a token; the generated token, carried by the
\* one Set-Cookie, otherwise.
C13_CSRFTokenBound ==
    (BrowserRequest /\ RedirectedUpstream) =>
        /\ AgentCookieAfter # <<>>
        /\ ~Decode(CSRFCookieEncodingName, AgentCookieAfter[1]).err
        /\ Decode(CSRFCookieEncodingName, AgentCookieAfter[1]).payload.CSRFToken
              = UpstreamStateOf(response.location).CSRFToken
        /\ IF InboundToken # NoToken
           THEN /\ UpstreamStateOf(response.location).CSRFToken = InboundToken
                /\ response.setCookies = <<>>
           ELSE /\ UpstreamStateOf(response.location).CSRFToken = served + 1
                /\ Len(response.setCookies) = 1

\* C13 witness: the second request of a user agent carried the cookie of the
\* first and was redirected upstream with that token and no Set-Cookie
C13_Witness ==
    /\ served = 1
    /\ BrowserRequest
    /\ RedirectedUpstream
    /\ InboundToken = 1
    /\ response.setCookies = <<>>
    /\ UpstreamStateOf(response.location).CSRFToken = 1

StaticClientWithCredentials ==
    /\ FormGet(RequestForm, "client_id") = ClientIDPinnipedCLI
    /\ HeaderGet(request.username) # ""
    /\ HeaderGet(request.password) # ""

\* the request was given to the browserless flow: it has a credential header,
\* its IdP was resolved and the OAuth2 helper accepted the authorize request
InBrowserlessFlow ==
    /\ BrowserlessRequest
    /\ HasCall("NewAuthorizeRequest")
    /\ FormGet(RequestForm, "client_id") \in RegisteredClients

\* C14: in the browserless flow Login is called only for client pinniped-cli
\* with a non-empty username header and a non-empty password header; in every
\* other case the flow ends with access_denied, Login is not called and no
\* authorization code is issued.
C14_LoginOnlyForStaticClient ==
    BrowserlessRequest =>
        /\ HasCall("Login") => StaticClientWithCredentials
        /\ HasCall("PerformAuthcodeRedirect") => HasCall("Login")
        /\ ~StaticClientWithCredentials =>
              ~HasCall("Login") /\ ~HasCall("PerformAuthcodeRedirect")
        /\ (InBrowserlessFlow /\ ~StaticClientWithCredentials) =>
              response.error = ErrAccessDenied
        /\ (InBrowserlessFlow /\ StaticClientWithCredentials) => HasCall("Login")

\* C14 witness: another registered client sent both headers and was refused
\* without a Login
C14_Witness ==
    /\ InBrowserlessFlow
    /\ FormGet(RequestForm, "client_id") = "dynamic-client"
    /\ HeaderGet(request.username) = "alice"
    /\ HeaderGet(request.password) = "pw"
    /\ response.error = ErrAccessDenied
    /\ ~HasCall("Login")

\* the pipeline of the resolved provider rejects the submitted user
PolicyRejects ==
    /\ ~ResolvedIdP.err
    /\ \E i \in 1..Len(ResolvedIdP.idp.Transforms) :
          /\ ResolvedIdP.idp.Transforms[i].type = "policy/v1"
          /\ HeaderGet(request.username) = "contractor"

PipelineMessage ==
    IF "ApplyIdentityTransformations" \in faulty THEN "identity transformation error"
    ELSE "no contractors"

\* C15: in the browserless flow, when Login succeeded and the pipeline rejects
\* the identity or fails, the response is access_denied with the hint
\* "Reason: <message of the pipeline>.", no session is made and no code is
\* issued; a code is issued only after Login and then the transformations
\* succeeded.
C15_TransformRejection ==
    BrowserlessRequest =>
        /\ (/\ HasCall("ApplyIdentityTransformations")
            /\ (PolicyRejects \/ "ApplyIdentityTransformations" \in faulty)) =>
              /\ response.error = ErrAccessDenied
              /\ response.hint = <<"Reason: ", PipelineMessage, ".">>
              /\ ~HasCall("NewPinnipedSession")
              /\ ~HasCall("PerformAuthcodeRedirect")
        /\ HasCall("ApplyIdentityTransformations") =>
              (HasCall("Login") /\ "Login" \notin faulty)
        /\ HasCall("PerformAuthcodeRedirect") =>
              /\ HasCall("Login") /\ HasCall("ApplyIdentityTransformations")
              /\ HasCall("NewPinnipedSession")
              /\ CallAt("Login") < CallAt("ApplyIdentityTransformations")
              /\ CallAt("ApplyIdentityTransformations") < CallAt("NewPinnipedSession")
              /\ CallAt("NewPinnipedSession") < CallAt("PerformAuthcodeRedirect")
              /\ "Login" \notin faulty
              /\ "ApplyIdentityTransformations" \notin faulty
              /\ ~PolicyRejects

\* C15 witness: the upstream accepted the user "contractor" and the policy of
\* the provider rejected it
C15_Witness ==
    /\ BrowserlessRequest
    /\ HasCall("Login")
    /\ HasCall("ApplyIdentityTransformations")
    /\ faulty = {}
    /\ PolicyRejects
    /\ response.error = ErrAccessDenied
    /\ response.hint = <<"Reason: ", "no contractors", ".">>

PromptNone == FormGet(RequestForm, promptParamName) = promptParamNone

OpenIDRequested == ScopeOpenID \in ScopesOf(FormGet(RequestForm, "scope"))

ReachedPromptCheck ==
    /\ HasCall("upstreamStateEncoder.Encode")
    /\ "upstreamStateEncoder.Encode" \notin faulty

FourHold ==
    /\ NamedIdP = ""
    /\ BrowserRequest
    /\ ~HasDefaultIDP(idpFinder)
    /\ IDPCount(idpFinder) > 0

\* C17 as claimed: the response is the 303 redirect to the chooser if and only
\* if the request names no IdP, is a browser request, the domain has no
\* default IdP and the domain has at least one IdP.
C17_AsClaimed ==
    Serving => ((RedirectedToChooser /\ response.status = StatusSeeOther) <=> FourHold)

\* C17: for a GET or POST request whose parameters can be parsed the response
\* is the 303 redirect to the chooser if and only if the request names no IdP,
\* is a browser request, the domain has no default IdP and the domain has at
\* least one IdP; no other request is sent to the chooser, so none that names
\* an IdP and none with a credential header.
C17_ChooserExactlyWhen ==
    Serving =>
        /\ RedirectedToChooser =>
              (response.status = StatusSeeOther /\ FourHold /\ MethodServed /\ FormParses)
        /\ (MethodServed /\ FormParses /\ FourHold) => RedirectedToChooser
        /\ (NamedIdP # "" \/ BrowserlessRequest) => ~RedirectedToChooser

\* C17 witness: a request of another method for which the four conditions
\* hold was answered without the chooser
C17_Witness ==
    /\ Serving
    /\ FourHold
    /\ ~MethodServed
    /\ ~RedirectedToChooser
    /\ response.status = StatusMethodNotAllowed

\* the query string of the request as pairs of a Location
QueryVerbatim ==
    [i \in 1..Len(request.query) |-> <<request.query[i][1], Plain(request.query[i][2])>>]

\* C18 as claimed: the Location of the chooser redirect is
\* <issuer>/choose_identity_provider? followed by the query string of the
\* request as it was sent.
C18_AsClaimed ==
    RedirectedToChooser =>
        /\ response.location.base = ChooserBase
        /\ response.location.query = QueryVerbatim

\* the values of one parameter in the Location, as written there
LocationValues(k) ==
    LET at == SelectSeq(response.location.query, LAMBDA p : p[1] = k)
    IN [i \in 1..Len(at) |-> at[i][2].payload.text]

\* the values of one parameter in the request: those of a urlencoded body,
\* then those of the query, then those of a multipart body
SentValues(k) ==
    (IF request.method = MethodPost
        /\ request.body.contentType = "application/x-www-form-urlencoded"
     THEN ValuesOf(request.body.pairs, k) ELSE <<>>)
    \o ValuesOf(request.query, k)
    \o (IF request.body.contentType = "multipart/form-data"
        THEN ValuesOf(request.body.pairs, k) ELSE <<>>)

ParamIndex(k) == CHOOSE i \in 1..Len(ParamOrder) : ParamOrder[i] = k

\* C18: the Location of the chooser redirect is
\* <issuer>/choose_identity_provider? followed by the parameters of the parsed
\* request written anew: the parameters of the query and of the form body
\* together, sorted by parameter name, every value of a parameter kept in
\* order and escaped again, nothing else added or left out.
C18_EncodedParameters ==
    RedirectedToChooser =>
        /\ response.location.base = ChooserBase
        /\ \A i \in 1..Len(response.location.query) :
              /\ response.location.query[i][1] \in {ParamOrder[j] : j \in 1..Len(ParamOrder)}
              /\ response.location.query[i][2].encodingName = ""
        /\ \A i, j \in 1..Len(response.location.query) :
              i < j => ParamIndex(response.location.query[i][1])
                          <= ParamIndex(response.location.query[j][1])
        /\ \A j \in 1..Len(ParamOrder) :
              LocationValues(ParamOrder[j])
                  = [i \in 1..Len(SentValues(ParamOrder[j])) |->
                        QueryEscape(SentValues(ParamOrder[j])[i])]

\* C18 witness: the Location of a chooser redirect holds a parameter of the
\* POST body and differs from the query string that was sent
C18_Witness ==
    /\ RedirectedToChooser
    /\ request.method = MethodPost
    /\ request.body.pairs # <<>>
    /\ ValuesOf(request.query, "state") = <<>>
    /\ LocationValues("state") = <<"cs">>
    /\ response.location.query # QueryVerbatim

\* C19 as claimed: a request that names no IdP, to a domain that is not in
\* back-compat mode, is answered with invalid_request, without a Login and
\* without a redirect upstream.
C19_AsClaimed ==
    (Serving /\ NamedIdP = "" /\ ~HasDefaultIDP(idpFinder)) =>
        /\ response.error = ErrInvalidRequest
        /\ ~HasCall("Login")
        /\ ~RedirectedUpstream

\* C19: a request that names no IdP, to a domain that is not in back-compat
\* mode, never leads to a Login, an authorization code or a redirect upstream;
\* when its method is GET or POST and its parameters can be parsed, a browser
\* request to a domain with at least one IdP is sent to the chooser and every
\* other such request is answered with invalid_request, rendered by the helper
\* without storage.
C19_MissingIdPName ==
    (Serving /\ NamedIdP = "" /\ ~HasDefaultIDP(idpFinder)) =>
        /\ ~HasCall("Login")
        /\ ~HasCall("PerformAuthcodeRedirect")
        /\ ~RedirectedUpstream
        /\ (MethodServed /\ FormParses) =>
              IF BrowserRequest /\ IDPCount(idpFinder) > 0
              THEN RedirectedToChooser /\ response.error = ""
              ELSE /\ response.error = ErrInvalidRequest
                   /\ response.helper = WithoutStorage
                   /\ response.by = "WriteAuthorizeError"

\* C19 witness: a browserless request without an IdP name to a domain with two
\* listed providers was answered with invalid_request
C19_Witness ==
    /\ BrowserlessRequest
    /\ StaticClientWithCredentials
    /\ NamedIdP = ""
    /\ IDPCount(idpFinder) = 2
    /\ ~HasDefaultIDP(idpFinder)
    /\ response.error = ErrInvalidRequest
    /\ ~HasCall("Login")

\* C20: a request whose method is neither GET nor POST is answered with 405
\* by the one call that writes the error, and nothing else is done for it: no
\* form is parsed, no IdP looked up, no cookie set, no redirect written, no
\* Login made.
C20_MethodNotAllowed ==
    (Serving /\ request.method \notin {MethodGet, MethodPost}) =>
        /\ response.status = StatusMethodNotAllowed
        /\ response.by = "HTTPErrorf"
        /\ response.writes = 1
        /\ response.calls = <<[name |-> "HTTPErrorf", helper |-> ""]>>
        /\ response.setCookies = <<>>
        /\ response.location = NoLocation
        /\ response.error = ""

\* C20 witness: a PUT with credential headers and an IdP name got the 405
C20_Witness ==
    /\ Serving
    /\ request.method = "PUT"
    /\ request.username = <<"alice">>
    /\ NamedIdP = "d1"
    /\ response.status = StatusMethodNotAllowed

\* the request was given to one of the two flows: its IdP was resolved and
\* the OAuth2 helper accepted the authorize request
Dispatched ==
    /\ Serving
    /\ HasCall("NewAuthorizeRequest")
    /\ FormGet(RequestForm, "client_id") \in RegisteredClients

\* the calls only the browser flow makes, and those only the browserless flow makes
BrowserFlowCalls ==
    {"NewAuthorizeResponse", "generateCSRF", "generateNonce", "generatePKCE",
     "upstreamStateEncoder.Encode", "cookieCodec.Encode", "SetCookie",
     "UpstreamAuthorizeRedirectURL", "Redirect"}

BrowserlessFlowCalls ==
    {"Login", "ApplyIdentityTransformations", "NewPinnipedSession", "PerformAuthcodeRedirect"}

\* C21: a request is handled as browserless exactly when it has at least one
\* username or password header, whatever the value; the flow it is given to
\* and the rendering of every error written for it follow that one mode.
C21_ModeFromHeaders ==
    Serving =>
        /\ response.by = "WriteAuthorizeError" => (response.browserless <=> BrowserlessRequest)
        /\ \A i \in 1..Len(response.calls) :
              /\ response.calls[i].name \in BrowserFlowCalls => BrowserRequest
              /\ response.calls[i].name \in BrowserlessFlowCalls => BrowserlessRequest
        /\ Dispatched => (HasCall("NewAuthorizeResponse") <=> BrowserRequest)
        /\ (Dispatched /\ BrowserlessRequest) =>
              (HasCall("Login") \/ response.error = ErrAccessDenied)

\* C21 witness: a request whose only credential header is a username header
\* with an empty value was given to the browserless flow
C21_Witness ==
    /\ Dispatched
    /\ request.username = <<"">>
    /\ request.password = <<>>
    /\ response.browserless
    /\ response.error = ErrAccessDenied
    /\ response.hint = <<"Missing or blank username or password.">>
    /\ ~HasCall("NewAuthorizeResponse")

\* C22: a request with a credential header never gets a CSRF Set-Cookie,
\* whether an authorization code is issued for it or an error written.
C22_NoCookieWithoutBrowser ==
    BrowserlessRequest =>
        /\ response.setCookies = <<>>
        /\ ~HasCall("SetCookie")
        /\ ~HasCall("cookieCodec.Encode")
        /\ AgentCookieAfter = request.cookie

\* C22 witness: an authorization code was issued for a request of a user
\* agent without a cookie, and no cookie was set
C22_Witness ==
    /\ BrowserlessRequest
    /\ HasCall("PerformAuthcodeRedirect")
    /\ response.by = "PerformAuthcodeRedirect"
    /\ request.cookie = <<>>
    /\ response.setCookies = <<>>

\* the calls that write a response
WritingCalls == {"HTTPErrorf", "Redirect", "WriteAuthorizeError", "PerformAuthcodeRedirect"}

WritingCallsMade == {i \in 1..Len(response.calls) : response.calls[i].name \in WritingCalls}

\* C23: for every request exactly one response is written: one call writes
\* (the 405, a redirect to the chooser or upstream, the redirect with the
\* authorization code, or the error), it is the last call made for the
\* request, and no second status is written.
C23_OneResponse ==
    Serving =>
        /\ response.writes = 1
        /\ Cardinality(WritingCallsMade) = 1
        /\ WritingCallsMade = {Len(response.calls)}
        /\ response.by = response.calls[Len(response.calls)].name
        /\ response.status \in {StatusSeeOther, StatusMethodNotAllowed}

\* C23 witness: the browser flow came back with an error after it had called
\* its collaborators, and the error was the one response written
C23_Witness ==
    /\ BrowserRequest
    /\ HasCall("UpstreamAuthorizeRedirectURL")
    /\ "UpstreamAuthorizeRedirectURL" \in faulty
    /\ response.by = "WriteAuthorizeError"
    /\ response.writes = 1
    /\ ~HasCall("Redirect")

\* the request carries a cookie that the codec refuses under the cookie name
UndecodableCookie ==
    /\ Serving
    /\ request.cookie # <<>>
    /\ Decode(CSRFCookieEncodingName, request.cookie[1]).err

\* C24: a request whose CSRF cookie does not decode is answered as the same
\* request without a cookie is: the response is the same in every part, a
\* redirect upstream carries a fresh token and the one Set-Cookie for it, and
\* no error comes from the cookie.
C24_UndecodableCookieIgnored ==
    UndecodableCookie =>
        /\ response = ServeHTTP(Handler(DownstreamIssuerURL, idpFinder, served + 1),
                                [request EXCEPT !.cookie = <<>>], faulty)
        /\ InboundToken = NoToken
        /\ (BrowserRequest /\ RedirectedUpstream) =>
              /\ Len(response.setCookies) = 1
              /\ UpstreamStateOf(response.location).CSRFToken = served + 1
              /\ Decode(CSRFCookieEncodingName, response.setCookies[1].Value).payload.CSRFToken
                    = served + 1
        /\ (faulty = {} /\ response.error # "") =>
              response.error \in {ErrInvalidRequest, ErrInvalidClient, ErrAccessDenied,
                                  ErrLoginRequired}

\* C24 witness: a request with a cookie sealed under a rotated key was
\* redirected upstream with a fresh token and a new cookie
C24_Witness ==
    /\ UndecodableCookie
    /\ request.cookie[1].key = "rotated"
    /\ BrowserRequest
    /\ RedirectedUpstream
    /\ Len(response.setCookies) = 1
    /\ UpstreamStateOf(response.location).CSRFToken = served + 1

\* C25: every cookie a response sets is the CSRF cookie named
\* __Host-pinniped-csrf with HttpOnly, Secure, SameSite=Lax and Path=/, and a
\* response sets at most one.
C25_CookieAttributes ==
    /\ Len(response.setCookies) <= 1
    /\ Len(response.setCookies) = Cardinality({i \in 1..Len(response.calls) :
                                                 response.calls[i].name = "SetCookie"})
    /\ \A i \in 1..Len(response.setCookies) :
          /\ response.setCookies[i].Name = "__Host-pinniped-csrf"
          /\ response.setCookies[i].HttpOnly
          /\ response.setCookies[i].Secure
          /\ response.setCookies[i].SameSite = "Lax"
          /\ response.setCookies[i].Path = "/"
          /\ DOMAIN response.setCookies[i]
                = {"Name", "Value", "HttpOnly", "Secure", "SameSite", "Path"}

\* C25 witness: a response that set the cookie
C25_Witness ==
    /\ Serving
    /\ Len(response.setCookies) = 1
    /\ response.setCookies[1].Name = "__Host-pinniped-csrf"
    /\ response.setCookies[1].Secure
    /\ RedirectedUpstream

CodecNames == {CSRFCookieEncodingName, UpstreamStateParamEncodingName}

\* values the codec is given: CSRF tokens, and an upstream state
CodecPayloads ==
    {[CSRFToken |-> t] : t \in 0..MaxRequests}
    \cup {[AuthParams |-> <<>>, UpstreamName |-> "d1", UpstreamType |-> "oidc",
           Nonce |-> "nonce", CSRFToken |-> 1, PKCECode |-> "pkce",
           FormatVersion |-> UpstreamStateParamFormatVersion]}

HelperOfMode == IF BrowserlessRequest THEN WithStorage ELSE WithoutStorage

\* C27: once the IdP of a request is resolved, every call on an OAuth2 helper
\* is made on the helper without storage for a browser request and on the one
\* with storage for a browserless request, so no browser request stores a
\* session; an error written before the IdP is resolved (form that cannot be
\* parsed, IdP not found) is rendered by the helper without storage in
\* either mode.
C27_HelperOfMode ==
    Serving =>
        /\ \A i \in 1..Len(response.calls) :
              response.calls[i].helper # "" =>
                  response.calls[i].helper =
                      IF HasCall("NewAuthorizeRequest") THEN HelperOfMode ELSE WithoutStorage
        /\ response.helper # "" =>
              response.helper =
                  IF HasCall("NewAuthorizeRequest") THEN HelperOfMode ELSE WithoutStorage
        /\ BrowserRequest =>
              /\ \A i \in 1..Len(response.calls) : response.calls[i].helper # WithStorage
              /\ ~HasCall("NewPinnipedSession")
              /\ ~HasCall("PerformAuthcodeRedirect")
        /\ (MethodServed /\ (~FormParses \/ (ResolvedIdP.err /\ ~RedirectedToChooser))) =>
              /\ response.by = "WriteAuthorizeError"
              /\ response.error = ErrInvalidRequest
              /\ response.helper = WithoutStorage
        /\ HasCall("PerformAuthcodeRedirect") => response.helper = WithStorage

\* C27 witness: a browserless request that named an unknown IdP had its error
\* rendered by the helper without storage
C27_Witness ==
    /\ BrowserlessRequest
    /\ NamedIdP = "zz"
    /\ ResolvedIdP.err
    /\ response.error = ErrInvalidRequest
    /\ response.helper = WithoutStorage
    /\ response.browserless
    /\ ~HasCall("NewAuthorizeRequest")

\* the browser flow came to the generation of the values
ReachedGeneration ==
    /\ BrowserRequest
    /\ HasCall("NewAuthorizeResponse")
    /\ "NewAuthorizeResponse" \notin faulty

\* the response of a request that failed inside the browser flow
EndsWithServerError ==
    /\ response.by = "WriteAuthorizeError"
    /\ response.error = ErrServerError
    /\ response.setCookies = <<>>
    /\ ~RedirectedUpstream
    /\ ~HasCall("Redirect")
    /\ ~HasCall("UpstreamAuthorizeRedirectURL")

\* C28: in the browser flow the failure of the CSRF, nonce or PKCE generator
\* (called in that order, none called after the first that fails), of the
\* encoding of the upstream state or of the encoding of the CSRF cookie ends
\* the request with server_error, without a redirect upstream.
C28_ServerErrors ==
    ReachedGeneration =>
        /\ HasCall("generateCSRF")
        /\ "generateCSRF" \in faulty =>
              /\ EndsWithServerError
              /\ ~HasCall("generateNonce") /\ ~HasCall("generatePKCE")
              /\ ~HasCall("upstreamStateEncoder.Encode")
        /\ "generateNonce" \in faulty =>
              /\ EndsWithServerError
              /\ HasCall("generateNonce") /\ ~HasCall("generatePKCE")
              /\ CallAt("generateCSRF") < CallAt("generateNonce")
              /\ ~HasCall("upstreamStateEncoder.Encode")
        /\ "generatePKCE" \in faulty =>
              /\ EndsWithServerError
              /\ HasCall("generateNonce") /\ HasCall("generatePKCE")
              /\ CallAt("generateCSRF") < CallAt("generateNonce")
              /\ CallAt("generateNonce") < CallAt("generatePKCE")
              /\ ~HasCall("upstreamStateEncoder.Encode")
        /\ "upstreamStateEncoder.Encode" \in faulty =>
              /\ EndsWithServerError
              /\ HasCall("upstreamStateEncoder.Encode")
              /\ ~HasCall("cookieCodec.Encode")
        /\ ("cookieCodec.Encode" \in faulty /\ HasCall("cookieCodec.Encode")) =>
              /\ EndsWithServerError
              /\ ~HasCall("SetCookie")

\* C28 witness: the nonce generator failed after the CSRF generator had
\* given a token
C28_Witness ==
    /\ ReachedGeneration
    /\ faulty = {"generateNonce"}
    /\ HasCall("generateCSRF")
    /\ HasCall("generateNonce")
    /\ ~HasCall("generatePKCE")
    /\ response.error = ErrServerError
    /\ response.hint = <<"Server could not generate necessary values.">>

CustomIDPParams == {AuthorizeUpstreamIDPNameParamName, AuthorizeUpstreamIDPTypeParamName}

\* the values of one parameter among encoded pairs
ValuesIn(pairs, k) ==
    LET at == SelectSeq(pairs, LAMBDA p : p[1] = k)
    IN [i \in 1..Len(at) |-> at[i][2]]

\* C29: the AuthParams of the upstream state are the parameters of the
\* authorize request without pinniped_idp_name and pinniped_idp_type: every
\* other parameter is there with all of its values, and the form of the
\* request still holds every parameter after the removal.
C29_AuthParams ==
    (BrowserRequest /\ RedirectedUpstream) =>
        LET authParams == UpstreamStateOf(response.location).AuthParams
        IN /\ \A j \in 1..Len(ParamOrder) :
                 ValuesIn(authParams, ParamOrder[j]) =
                     IF ParamOrder[j] \in CustomIDPParams THEN <<>>
                     ELSE [i \in 1..Len(SentValues(ParamOrder[j])) |->
                              QueryEscape(SentValues(ParamOrder[j])[i])]
           /\ \A i \in 1..Len(authParams) :
                 authParams[i][1] \in {ParamOrder[j] : j \in 1..Len(ParamOrder)}
           /\ response.requesterForm = RequestForm
           /\ \A j \in 1..Len(ParamOrder) :
                 SentValues(ParamOrder[j]) # <<>> =>
                     /\ ParamOrder[j] \in DOMAIN response.requesterForm
                     /\ response.requesterForm[ParamOrder[j]] = SentValues(ParamOrder[j])

\* C29 witness: a request with both IdP parameters and a parameter with two
\* values was redirected upstream
C29_Witness ==
    /\ BrowserRequest
    /\ RedirectedUpstream
    /\ SentValues(AuthorizeUpstreamIDPNameParamName) = <<"d1">>
    /\ SentValues(AuthorizeUpstreamIDPTypeParamName) = <<"oidc">>
    /\ ValuesIn(UpstreamStateOf(response.location).AuthParams, "state") = <<"cs", "cs2">>
    /\ ValuesIn(UpstreamStateOf(response.location).AuthParams,
                AuthorizeUpstreamIDPNameParamName) = <<>>
    /\ FormGet(response.requesterForm, AuthorizeUpstreamIDPTypeParamName) = "oidc"

\* C30: every published FederationDomainIssuer has either a default provider
\* or a list of providers that is not empty, never both and never neither.
C30_DefaultOrListed ==
    \A e \in PublishedEntries :
        /\ Len(e.issuer.defaultIdentityProvider) <= 1
        /\ (e.issuer.defaultIdentityProvider # <<>>) # (e.issuer.identityProviders # <<>>)
        /\ \A i \in DomainIndices :
              fdSpecs[i].name = e.fd =>
                  /\ e.issuer.defaultIdentityProvider # <<>> =>
                        SpecOf(i).identityProviders = <<>>
                  /\ e.issuer.identityProviders # <<>> =>
                        Len(e.issuer.identityProviders) = Len(SpecOf(i).identityProviders)

\* C30 witness: a domain that lists no provider was published with the one
\* IdP of the namespace as its default provider and an empty list
C30_Witness ==
    \E e \in PublishedEntries :
        /\ e.issuer.defaultIdentityProvider # <<>>
        /\ e.issuer.identityProviders = <<>>
        /\ Cardinality(idpStore) = 1

----------------------------------------------------------------------------
(* Display names, transform examples and the triggers of Sync *)

DisplayNamesOf(providers) == {providers[k].DisplayName : k \in 1..Len(providers)}

\* no two entries of the list carry the same display name
DistinctDisplayNames(providers) == Cardinality(DisplayNamesOf(providers)) = Len(providers)

RepeatsDisplayName(i) ==
    \E k, m \in 1..Len(IdpsOf(i)) :
        k # m /\ IdpsOf(i)[k].displayName = IdpsOf(i)[m].displayName

\* C31: no published FederationDomainIssuer holds two identity providers with
\* the same display name, and a FederationDomain whose spec.identityProviders
\* repeats a displayName is not published.
C31_AsClaimed ==
    SyncDone =>
        /\ \A e \in PublishedEntries : DistinctDisplayNames(e.issuer.identityProviders)
        /\ \A i \in DomainIndices :
              RepeatsDisplayName(i) => FdName[i] \notin NamesIn(published)

\* one FederationDomain with one identity provider, over every pipeline of the
\* model and every list of examples
ExamplePipelines ==
    {<<Expr("username/v1", "username", "")>>,
     <<Expr("policy/v1", PolicyNotContractor, "no")>>,
     <<Expr("username/v1", UsernameAdmin, ""), Expr("groups/v1", GroupsNone, "")>>}

ExampleChoices ==
    {Example("alice", <<"g1">>, FALSE, "", "alice", <<"g1">>),
     Example("alice", <<"g1">>, TRUE, "no", "", <<>>),
     Example("contractor", <<>>, FALSE, "", "contractor", <<>>),
     Example("contractor", <<>>, TRUE, "denied", "", <<>>),
     Example("alice", <<"g1">>, FALSE, "", "bob", <<"g1">>),
     Example("alice", <<"g1", "g2">>, FALSE, "", "alice", <<"g2", "g1">>)}

ExampleSpecs ==
    {FdSpec(IssuerA, NoTLS,
            <<RefWithExamples(Ref("d1", KindOIDC, "n1", x), l)>>) :
        x \in ExamplePipelines, l \in SeqsUpTo(ExampleChoices, MaxExamples)}

InitExamples ==
    InitWith(ExampleSpecs, {1}, {{}, {IdPResource(KindOIDC, "n1", "u1")}}, {0, 1})

SpecExamples == InitExamples /\ [][NextSync]_vars

\* what the examples loop logged for the FederationDomain
WarningsOf(i) == resolveIdentityProviders(Observed(i), idpStore).warnings

WithoutExamples(federationDomain) ==
    [federationDomain EXCEPT !.spec.identityProviders =
        [k \in 1..Len(@) |-> RefWithExamples(@[k], <<>>)]]

\* the conditions the Sync would have computed had the domain no examples
ConditionsWithoutExamples(i) ==
    LET federationDomain == WithoutExamples(snapshot[i])
        conditions == domainConditions(validator, federationDomain, idpStore)
    IN Append(conditions, readyCondition(federationDomain, conditions))

\* C32: at reconcile time every transform example is evaluated against the
\* compiled pipeline, and each failing example (expected rejected but allowed,
\* expected allowed but rejected, different rejection message, different
\* username, different groups) is recorded as a status condition: the
\* conditions computed for a domain with a failing example are not the ones
\* computed for the same domain without its examples.
C32_AsClaimed ==
    SyncDone =>
        \A i \in DomainIndices :
            WarningsOf(i) # <<>> =>
                computed[FdName[i]] # ConditionsWithoutExamples(i)

FourConditionTypes ==
    {typeIssuerIsUnique, typeOneTLSSecretPerIssuerHostname, typeIdentityProvidersFound,
     typeIssuerURLValid}

FourTrue(name) ==
    \A t \in FourConditionTypes :
        \E j \in 1..Len(computed[name]) :
            computed[name][j].type = t /\ computed[name][j].status = ConditionTrue

\* the UpdateStatus call the Sync made for the domain returned an error
UpdateFailed(name) ==
    \E k \in 1..Len(updateCalls) :
        updateCalls[k].object.name = name /\ updateCalls[k].failed

\* C33: transform examples are advisory: a FederationDomain whose examples
\* fail is published by a Sync that wrote its status whenever IssuerIsUnique,
\* OneTLSSecretPerIssuerHostname, IdentityProvidersFound and IssuerURLValid
\* are all True, and a domain is published exactly when the same domain
\* without its examples would be.
C33_ExamplesAdvisory ==
    SyncDone =>
        \A i \in DomainIndices :
            /\ (WarningsOf(i) # <<>> /\ FourTrue(FdName[i]) /\ ~UpdateFailed(FdName[i])) =>
                   FdName[i] \in NamesIn(published)
            /\ FdName[i] \in NamesIn(published)
                   <=> /\ ~UpdateFailed(FdName[i])
                       /\ ~hadErrorCondition(
                             domainConditions(validator, WithoutExamples(snapshot[i]),
                                              idpStore))

C33_Witness ==
    /\ SyncDone
    /\ \E i \in DomainIndices :
          /\ Len(WarningsOf(i)) >= 2
          /\ FdName[i] \in NamesIn(published)

\* an event after which the claim expects a Sync
Triggering(e) == e.informer = KindFederationDomain \/ e.op \in {"add", "delete"}

\* a step in which an informer delivered an event
EventDelivered == events' # events \/ cached' # cached

SyncBegins == pc # "loop" /\ pc' = "loop"

\* C34: every add, update and delete of a FederationDomain and every create
\* and delete of an OIDC, LDAP or ActiveDirectory IdP resource puts the key of
\* a Sync on the queue, an update of an IdP resource leaves the queue as it
\* was; the queue never holds another key than the singleton key, and the Sync
\* the worker runs for that key lists every FederationDomain.
C34_SyncTriggers ==
    [][/\ EventDelivered =>
             IF Triggering(lastEvent') THEN SingletonQueue \in queue' ELSE queue' = queue
       /\ queue' \subseteq {SingletonQueue}
       /\ SyncBegins =>
             /\ SingletonQueue \in queue
             /\ queue' = {}
             /\ Names(snapshot') = Names(fdSpecs)]_vars

C34_Witness ==
    /\ pc = "done"
    /\ lastEvent.informer \in {KindOIDC, KindLDAP, KindAD}
    /\ lastEvent.op = "update"
    /\ queue = {}
    /\ Len(fdSpecs) = 2

----------------------------------------------------------------------------
(* The schema of TLSSpec in the concierge CRDs *)

\* a field of a submitted resource: <<>> when the YAML leaves it out, <<v>>
\* when it is written with the value v
Absent == <<>>
Written(v) == <<v>>

CertificateAuthorityDataSourceSpec(kind, name, key) ==
    [kind |-> kind, name |-> name, key |-> key]

TLSSpec(certificateAuthorityData, certificateAuthorityDataSource) ==
    [certificateAuthorityData |-> certificateAuthorityData,
     certificateAuthorityDataSource |-> certificateAuthorityDataSource]

\* a WebhookAuthenticator with its spec.tls
WebhookAuthenticator(tls) == [tls |-> tls]

\* +kubebuilder:validation:Enum=Secret;ConfigMap
KindEnum == {"Secret", "ConfigMap"}

\* +kubebuilder:validation:MinLength=1 of key
KeyMinLength == 1

\* a slip: no minimum length for name
NameMinLengthNone == KeyMinLength - 1

\* +kubebuilder:validation:MinLength=1 of name
NameMinLength == 1

\* the number of characters of the strings of the model
StringLength(str) == IF str = "" THEN 0 ELSE 3

\* a field without omitempty and without +optional is required
requiredErrors(field, value) ==
    IF value = Absent THEN {[field |-> field, reason |-> "Required value"]} ELSE {}

enumErrors(field, value, enum) ==
    IF value # Absent /\ value[1] \notin enum
    THEN {[field |-> field, reason |-> "Unsupported value"]} ELSE {}

minLengthErrors(field, value, minLength) ==
    IF value # Absent /\ StringLength(value[1]) < minLength
    THEN {[field |-> field, reason |-> "Invalid value"]} ELSE {}

\* the schema generated for CertificateAuthorityDataSourceSpec
validateCertificateAuthorityDataSource(source) ==
    requiredErrors("kind", source.kind) \cup enumErrors("kind", source.kind, KindEnum)
    \cup requiredErrors("name", source.name)
    \cup minLengthErrors("name", source.name, NameMinLength)
    \cup requiredErrors("key", source.key)
    \cup minLengthErrors("key", source.key, KeyMinLength)

\* the schema generated for TLSSpec: both of its fields are optional
validateTLSSpec(tls) ==
    IF tls.certificateAuthorityDataSource = Absent THEN {}
    ELSE validateCertificateAuthorityDataSource(tls.certificateAuthorityDataSource[1])

\* kubectl apply of the resource: created, or invalid with the errors of the schema
KubectlApply ==
    /\ outcome = <<>>
    /\ candidate # NoCandidate
    /\ LET tls == candidate[1].tls
           errors == IF tls = Absent THEN {} ELSE validateTLSSpec(tls[1])
       IN outcome' = <<[created |-> errors = {}, errors |-> errors]>>
    /\ UNCHANGED candidate
    /\ UNCHANGED <<controllerVars, handlerVars, webhookVars>>

FieldValues(good) == {Absent, Written(""), Written(good)}

Candidates ==
    {WebhookAuthenticator(Absent),
     WebhookAuthenticator(Written(TLSSpec(Absent, Absent))),
     WebhookAuthenticator(Written(TLSSpec(Written("pem"), Absent)))}
    \cup {WebhookAuthenticator(Written(TLSSpec(Absent,
              Written(CertificateAuthorityDataSourceSpec(k, n, y))))) :
            k \in {Absent, Written(""), Written("Secret"), Written("ConfigMap"),
                   Written("sorcery"), Written("secret")},
            n \in FieldValues("foo"), y \in FieldValues("bar")}

InitSchema ==
    /\ InitController({FdSpec(IssuerA, NoTLS, <<>>)}, {1}, {{}}, {0})
    /\ InitHandler({NoFinder}, {<<>>})
    /\ InitAdmission({<<c>> : c \in Candidates})
    /\ InitWebhook

NextSchema == KubectlApply

SpecSchema == InitSchema /\ [][NextSchema]_vars

SubmittedSource == candidate[1].tls[1].certificateAuthorityDataSource[1]

HasSource ==
    /\ candidate[1].tls # Absent
    /\ candidate[1].tls[1].certificateAuthorityDataSource # Absent

PresentNonEmpty(value) == value # Absent /\ value[1] # ""

\* C35: a resource is accepted exactly when it has no TLS block, or no
\* certificateAuthorityDataSource, or a certificateAuthorityDataSource whose
\* kind is Secret or ConfigMap and whose name and key are both present and
\* non-empty; a missing or empty kind, name or key, or any other kind, is
\* rejected with an error on that field.
C35_SchemaAccepts ==
    outcome # <<>> =>
        /\ outcome[1].created <=>
              (HasSource =>
                  /\ SubmittedSource.kind \in {Written("Secret"), Written("ConfigMap")}
                  /\ PresentNonEmpty(SubmittedSource.name)
                  /\ PresentNonEmpty(SubmittedSource.key))
        /\ HasSource =>
              \A f \in {"kind", "name", "key"} :
                  ~PresentNonEmpty(SubmittedSource[f]) =>
                      \E e \in outcome[1].errors : e.field = f

C35_Witness ==
    /\ outcome # <<>>
    /\ ~outcome[1].created
    /\ HasSource
    /\ SubmittedSource.kind = Written("Secret")
    /\ SubmittedSource.name = Written("")
    /\ SubmittedSource.key = Written("bar")

----------------------------------------------------------------------------
(* Failed status updates, the Ready condition, and convergence *)

\* C36: a FederationDomain whose UpdateStatus call failed during a Sync is not
\* in the set that Sync publishes, whatever its conditions and whatever the
\* previous Sync published; every step that changes the published set leaves
\* in it only domains whose status update in that Sync succeeded or was not
\* needed.
C36_FailedUpdateLeftOut ==
    /\ [](SyncDone => \A n \in Names(fdSpecs) :
                          UpdateFailed(n) => n \notin NamesIn(published))
    /\ [][published' # published =>
             \A n \in NamesIn(published') : ~UpdateFailed(n)']_vars

C36_Witness ==
    /\ SyncDone
    /\ \E n \in Names(fdSpecs) :
          /\ UpdateFailed(n)
          /\ AllFiveTrue(n)
          /\ stored[n].phase = FederationDomainPhaseReady
          /\ n \notin NamesIn(published)

ConditionsOfType(conditions, type) == SelectSeq(conditions, LAMBDA c : c.type = type)

OthersAllTrue(conditions) ==
    \A k \in 1..Len(conditions) :
        conditions[k].type # typeReady => conditions[k].status = ConditionTrue

\* the Ready condition and the phase the claim expects next to the other conditions
ReadyAsClaimed(conditions, ready, phase) ==
    IF OthersAllTrue(conditions)
    THEN /\ ready.status = ConditionTrue
         /\ ready.reason = reasonSuccess
         /\ phase = FederationDomainPhaseReady
    ELSE /\ ready.status = ConditionFalse
         /\ ready.reason = reasonNotReady
         /\ phase = FederationDomainPhaseError

\* C37: in every status a Sync computed there is one Ready condition; it is
\* True with reason Success, and status.phase is Ready, exactly when every
\* other computed condition is True, and it is False with reason NotReady, and
\* status.phase is Error, otherwise, a condition with status Unknown counting
\* as not True; the status handed to UpdateStatus carries that Ready condition
\* and that phase.
C37_ReadyFromOthers ==
    /\ \A n \in DOMAIN computed :
          computed[n] # <<>> =>
              /\ Len(ConditionsOfType(computed[n], typeReady)) = 1
              /\ ReadyAsClaimed(computed[n], ConditionsOfType(computed[n], typeReady)[1],
                                phaseOf(SelectSeq(computed[n],
                                                  LAMBDA c : c.type # typeReady)))
    /\ \A k \in 1..Len(updateCalls) :
          LET object == updateCalls[k].object
              ready == ConditionsOfType(object.status.conditions, typeReady)
          IN /\ Len(ready) = 1
             /\ ReadyAsClaimed(computed[object.name], ready[1], object.status.phase)
             /\ ready[1].status = ConditionsOfType(computed[object.name], typeReady)[1].status

C37_Witness ==
    /\ SyncDone
    /\ \E k \in 1..Len(updateCalls) :
          LET object == updateCalls[k].object
          IN /\ object.status.phase = FederationDomainPhaseError
             /\ \E j \in 1..Len(computed[object.name]) :
                   computed[object.name][j].status = ConditionUnknown
             /\ \E j \in 1..Len(object.status.conditions) :
                   /\ object.status.conditions[j].type = typeReady
                   /\ object.status.conditions[j].status = ConditionFalse
                   /\ object.status.conditions[j].reason = reasonNotReady

----------------------------------------------------------------------------
(* The CSRF cookie of the browser flow *)

CookieSet == response.setCookies # <<>> \/ HasCall("SetCookie")

\* the steps of the browser flow the claim puts before the cookie
StepsBeforeCookie ==
    <<"NewAuthorizeResponse", "generateCSRF", "generateNonce", "generatePKCE",
      "upstreamStateEncoder.Encode">>

\* C38: in the browser flow the CSRF cookie is set only after the OAuth2
\* response validation succeeded, the CSRF, nonce and PKCE values were
\* generated, the upstream state was encoded and the prompt check passed; a
\* response with login_required, or with server_error after a failure of a
\* generator or of the state encoder, sets no cookie.
C38_CookieAfterChecks ==
    BrowserRequest =>
        /\ CookieSet =>
              /\ HasCall("SetCookie")
              /\ \A k \in 1..Len(StepsBeforeCookie) :
                    /\ HasCall(StepsBeforeCookie[k])
                    /\ StepsBeforeCookie[k] \notin faulty
                    /\ CallAt(StepsBeforeCookie[k]) < CallAt("SetCookie")
              /\ ~(PromptNone /\ OpenIDRequested)
        /\ response.error = ErrLoginRequired => ~CookieSet
        /\ (/\ response.error = ErrServerError
            /\ faulty \cap {"generateCSRF", "generateNonce", "generatePKCE",
                            "upstreamStateEncoder.Encode"} # {}) => ~CookieSet

C38_Witness ==
    /\ BrowserRequest
    /\ CookieSet
    /\ RedirectedUpstream
    /\ PromptNone
    /\ ~OpenIDRequested

\* the controller of SpecTriggers with every UpdateStatus call succeeding, and
\* the steps the worker and the informer cannot put off for ever
NextConverge ==
    \/ Worker
    \/ SyncDomain
    \/ SyncPublish
    \/ InformerObserve
    \/ FdCreate
    \/ FdUpdate
    \/ FdDelete
    \/ IdPCreateAny
    \/ IdPDeleteAny
    \/ IdPUpdate

\* the step SyncDomain takes in the range loop, by what it does to idx; it is
\* enabled exactly when SyncDomain is, and no other step of the loop moves idx
LoopAdvances == pc = "loop" /\ idx <= Len(snapshot) /\ idx' = idx + 1

\* the worker takes a queued key, a started Sync runs to its end, and the
\* informer delivers the status the API server holds
FairnessConverge ==
    /\ WF_vars(Worker)
    /\ WF_idx(LoopAdvances)
    /\ WF_vars(SyncPublish)
    /\ WF_vars(InformerObserve)

SpecConverge == InitTriggers /\ [][NextConverge]_vars /\ FairnessConverge

\* the domains of the present resources whose computed conditions are all True
ReadyNames ==
    {n \in Names(fdSpecs) :
        /\ n \in DOMAIN computed
        /\ computed[n] # <<>>
        /\ \A k \in 1..Len(computed[n]) : computed[n][k].status = ConditionTrue}

\* no Sync runs or waits, the last one listed the resources as they are now,
\* made no UpdateStatus call and published the domains that are ready
Converged ==
    /\ pc = "done"
    /\ queue = {}
    /\ cached = stored
    /\ snapshot = [i \in 1..Len(fdSpecs) |-> Observed(i)]
    /\ updateCalls = <<>>
    /\ NamesIn(published) = ReadyNames

\* C39: once operators stop changing FederationDomain and IdP resources, after
\* finitely many Syncs, those triggered by the controller's own status writes
\* included, no UpdateStatus call is made any more and the published set is
\* the set of FederationDomains of the final snapshot whose conditions are all
\* True.
C39_Converges == <>[]Converged

C39_Witness ==
    /\ Converged
    /\ events = MaxEvents
    /\ ReadyNames # {}
    /\ \E n \in Names(fdSpecs) : stored[n] # NoStatus /\ n \notin ReadyNames

-----------------------------------------------------------------------------
(* The webhook server of the local-user-authenticator *)

ErrServerClosed == "http: Server closed"

ErrAccept == "use of closed network connection"

\* the goroutine that made it is parked on an unbuffered channel with its value
\* until a receiver takes it
parked(value) == <<value>>

InfoS(msg, err) == Append(klog, [msg |-> msg, err |-> err])

\* webhook.start: builds the server and the channel, starts both goroutines and
\* returns nil
start ==
    /\ runPc = "startWebhook"
    /\ errCh' = <<>>
    /\ serveGoroutine' = "started"
    /\ watchGoroutine' = "select"
    /\ runPc' = "started"
    /\ UNCHANGED <<ctx, server, conns, klog, listener>>
    /\ UNCHANGED <<controllerVars, handlerVars, admissionVars>>

\* run logs that the webhook is ready and blocks in waitForSignal
waitForSignal ==
    /\ runPc = "started"
    /\ klog' = InfoS("webhook is ready", "")
    /\ runPc' = "waitForSignal"
    /\ UNCHANGED <<ctx, server, errCh, serveGoroutine, watchGoroutine, conns, listener>>
    /\ UNCHANGED <<controllerVars, handlerVars, admissionVars>>

\* os.Interrupt arrives: run logs it and returns, which runs its deferred calls
Interrupt ==
    /\ runPc = "waitForSignal"
    /\ klog' = InfoS("webhook exiting", "")
    /\ runPc' = "l.Close"
    /\ UNCHANGED <<ctx, server, errCh, serveGoroutine, watchGoroutine, conns, listener>>
    /\ UNCHANGED <<controllerVars, handlerVars, admissionVars>>

\* the deferred l.Close() of run, registered last and so run first
Close ==
    /\ runPc = "l.Close"
    /\ listener' = "closed"
    /\ runPc' = "cancel"
    /\ UNCHANGED <<ctx, server, errCh, serveGoroutine, watchGoroutine, conns, klog>>
    /\ UNCHANGED <<controllerVars, handlerVars, admissionVars>>

\* the deferred cancel() of run: the context passed to start is cancelled
cancel ==
    /\ runPc = "cancel"
    /\ ctx' = "cancelled"
    /\ runPc' = "returned"
    /\ UNCHANGED <<server, errCh, serveGoroutine, watchGoroutine, conns, klog, listener>>
    /\ UNCHANGED <<controllerVars, handlerVars, admissionVars>>

\* the serving goroutine enters server.ServeTLS: a server already shut down
\* returns ErrServerClosed at once, any other goes to accept on the listener
ServeTLS ==
    /\ serveGoroutine = "started"
    /\ IF server = "shutdown"
       THEN /\ serveGoroutine' = "send"
            /\ errCh' = parked(ErrServerClosed)
            /\ UNCHANGED server
       ELSE /\ serveGoroutine' = "ServeTLS"
            /\ server' = "serving"
            /\ UNCHANGED errCh
    /\ UNCHANGED <<ctx, watchGoroutine, conns, klog, listener, runPc>>
    /\ UNCHANGED <<controllerVars, handlerVars, admissionVars>>

\* a client connects to the serving webhook and sends a request
Accept ==
    /\ serveGoroutine = "ServeTLS"
    /\ server = "serving"
    /\ listener = "open"
    /\ conns.active + conns.idle < MaxConns
    /\ conns' = [conns EXCEPT !.active = @ + 1]
    /\ UNCHANGED <<ctx, server, errCh, serveGoroutine, watchGoroutine, klog, listener, runPc>>
    /\ UNCHANGED <<controllerVars, handlerVars, admissionVars>>

\* webhook.ServeHTTP answers the request of a connection, which the client
\* then closes or keeps; a server shutting down closes it
webhookServeHTTP ==
    /\ conns.active > 0
    /\ \E kept \in (IF server = "shutdown" THEN {0} ELSE {0, 1}) :
          conns' = [active |-> conns.active - 1, idle |-> conns.idle + kept]
    /\ UNCHANGED <<ctx, server, errCh, serveGoroutine, watchGoroutine, klog, listener, runPc>>
    /\ UNCHANGED <<controllerVars, handlerVars, admissionVars>>

\* a client sends another request on a connection it kept, or closes it
KeepAlive ==
    /\ conns.idle > 0
    /\ \E again \in {0, 1} :
          conns' = [active |-> conns.active + again, idle |-> conns.idle - 1]
    /\ UNCHANGED <<ctx, server, errCh, serveGoroutine, watchGoroutine, klog, listener, runPc>>
    /\ UNCHANGED <<controllerVars, handlerVars, admissionVars>>

\* server.ServeTLS returns once it cannot accept, with ErrServerClosed after
\* Shutdown and with the error of the closed listener otherwise, and the
\* goroutine sends the result on errCh
ServeTLSReturns ==
    /\ serveGoroutine = "ServeTLS"
    /\ server = "shutdown" \/ listener = "closed"
    /\ errCh' = parked(IF server = "shutdown" THEN ErrServerClosed ELSE ErrAccept)
    /\ serveGoroutine' = "send"
    /\ UNCHANGED <<ctx, server, watchGoroutine, conns, klog, listener, runPc>>
    /\ UNCHANGED <<controllerVars, handlerVars, admissionVars>>

\* the select of the watcher takes case err := <-errCh: the send completes, the
\* watcher logs and both goroutines return
SelectErrCh ==
    /\ watchGoroutine = "select"
    /\ serveGoroutine = "send"
    /\ errCh # <<>>
    /\ klog' = InfoS("server exited", errCh[1])
    /\ errCh' = <<>>
    /\ serveGoroutine' = "exited"
    /\ watchGoroutine' = "exited"
    /\ UNCHANGED <<ctx, server, conns, listener, runPc>>
    /\ UNCHANGED <<controllerVars, handlerVars, admissionVars>>

\* the select of the watcher takes case <-ctx.Done(): it logs and calls
\* server.Shutdown, which closes the listener of the server
SelectCtxDone ==
    /\ watchGoroutine = "select"
    /\ ctx = "cancelled"
    /\ klog' = InfoS("server context cancelled", "context canceled")
    /\ server' = "shutdown"
    /\ listener' = "closed"
    /\ conns' = [conns EXCEPT !.idle = 0]
    /\ watchGoroutine' = "Shutdown"
    /\ UNCHANGED <<ctx, errCh, serveGoroutine, runPc>>
    /\ UNCHANGED <<controllerVars, handlerVars, admissionVars>>

\* server.Shutdown(context.Background()) returns once no connection is active,
\* with the error closing the listener gave if any; the watcher logs an error
\* and returns without receiving from errCh
Shutdown ==
    /\ watchGoroutine = "Shutdown"
    /\ conns.active = 0
    /\ \E failed \in BOOLEAN :
          klog' = IF failed THEN InfoS("server shutdown failed", ErrAccept) ELSE klog
    /\ watchGoroutine' = "exited"
    /\ UNCHANGED <<ctx, server, errCh, serveGoroutine, conns, listener, runPc>>
    /\ UNCHANGED <<controllerVars, handlerVars, admissionVars>>

InitWebhookServer ==
    /\ InitController({FdSpec(IssuerA, NoTLS, <<>>)}, {1}, {{}}, {0})
    /\ InitHandler({NoFinder}, {<<>>})
    /\ InitAdmission({NoCandidate})
    /\ InitWebhook

NextWebhook ==
    \/ start
    \/ waitForSignal
    \/ Interrupt
    \/ Close
    \/ cancel
    \/ ServeTLS
    \/ Accept
    \/ webhookServeHTTP
    \/ KeepAlive
    \/ ServeTLSReturns
    \/ SelectErrCh
    \/ SelectCtxDone
    \/ Shutdown

\* a goroutine that can take a step takes it and a request is answered; no
\* client has to connect and no signal has to arrive
FairnessWebhook ==
    /\ WF_vars(start)
    /\ WF_vars(waitForSignal)
    /\ WF_vars(Close)
    /\ WF_vars(cancel)
    /\ WF_vars(ServeTLS)
    /\ WF_vars(webhookServeHTTP)
    /\ WF_vars(ServeTLSReturns)
    /\ WF_vars(SelectErrCh)
    /\ WF_vars(SelectCtxDone)
    /\ WF_vars(Shutdown)

\* run and the goroutines of start, for as long as the process lasts
SpecWebhook == InitWebhookServer /\ [][NextWebhook]_vars /\ FairnessWebhook

GoroutinesTerminated == watchGoroutine = "exited" /\ serveGoroutine = "exited"

\* C40: after the context passed to webhook.start is cancelled, both goroutines
\* started by start eventually terminate: the watcher calls Shutdown and
\* exits, and the send of the ServeTLS result on errCh completes.
C40_AsClaimed == (ctx = "cancelled") ~> GoroutinesTerminated

====
